---- MODULE Spec2Model ----
(***************************************************************************)
(* Invoice extractor back end: text recovery from PDFs and images, the     *)
(* structured-extraction model call, the reply sanitizer and JSON parser,  *)
(* customer resolution and the merge of the resolved identifiers.          *)
(*                                                                         *)
(* One behaviour is one invocation of one function of the back end         *)
(* (variable entry).  Strings are sequences of one-character strings, so   *)
(* that strip, startswith, slicing, join and json.loads are computed       *)
(* character by character as Python computes them.                         *)
(***************************************************************************)
EXTENDS Integers, Sequences, FiniteSets, TLC

-----------------------------------------------------------------------------
(* Bounds of the model and constants of the program                        *)

\* largest number of pages of a PDF
MaxPages == 2

\* document_LLM_image_extraction.py:132, openai_full_data_extraction.py:219
TextThreshold == 100

\* openai_invoice_data.py:143: response_text[:500]
DiagLimit == 500

-----------------------------------------------------------------------------
(* Python str operations                                                   *)

\* the characters str.strip() and str.split() treat as whitespace
WS == {" ", "\n", "\t", "\r"}

IsWS(c) == c \in WS

Rep(c, n) == [k \in 1..n |-> c]

\* bool(s.strip()) is False
IsBlank(s) == \A k \in 1..Len(s) : IsWS(s[k])

\* str.lstrip()
StripLeadingOnly(s) ==
    IF IsBlank(s) THEN <<>>
    ELSE LET first == CHOOSE k \in 1..Len(s) :
                         ~IsWS(s[k]) /\ \A j \in 1..(k-1) : IsWS(s[j])
         IN SubSeq(s, first, Len(s))

\* str.strip()
Strip(s) ==
    IF IsBlank(s) THEN <<>>
    ELSE LET first == CHOOSE k \in 1..Len(s) :
                         ~IsWS(s[k]) /\ \A j \in 1..(k-1) : IsWS(s[j])
             last  == CHOOSE k \in 1..Len(s) :
                         ~IsWS(s[k]) /\ \A j \in (k+1)..Len(s) : IsWS(s[j])
         IN SubSeq(s, first, last)

\* s.startswith(p)
StartsWith(s, p) == Len(s) >= Len(p) /\ SubSeq(s, 1, Len(p)) = p

\* s.endswith(p)
EndsWith(s, p) == Len(s) >= Len(p) /\ SubSeq(s, Len(s) - Len(p) + 1, Len(s)) = p

\* s[n:]
DropFirst(s, n) == SubSeq(s, n + 1, Len(s))

\* s[:-n]  (n > 0)
DropLast(s, n) == SubSeq(s, 1, Len(s) - n)

\* s[:n]
Take(s, n) == SubSeq(s, 1, IF Len(s) < n THEN Len(s) ELSE n)

RECURSIVE JoinWith(_, _)
\* sep.join(parts)
JoinWith(sep, parts) ==
    IF parts = <<>> THEN <<>>
    ELSE IF Len(parts) = 1 THEN parts[1]
    ELSE parts[1] \o sep \o JoinWith(sep, Tail(parts))

\* "\n".join(parts)
JoinNL(parts) == JoinWith(<<"\n">>, parts)

RECURSIVE SumSeq(_)
SumSeq(ns) == IF ns = <<>> THEN 0 ELSE ns[1] + SumSeq(Tail(ns))

-----------------------------------------------------------------------------
(* The reply sanitizer                                                     *)

\* the character ` (U+0060); a TLA+ string literal cannot hold it
BQ == "BQ"

\* the code-fence marker: three backquotes
Fence == <<BQ, BQ, BQ>>

\* the code-fence marker with the language tag json
FenceJson == Fence \o <<"j", "s", "o", "n">>

\* s[len(p):] if s.startswith(p), else s
RemovePrefix(s, p) == IF StartsWith(s, p) THEN DropFirst(s, Len(p)) ELSE s

\* s[:-len(p)] if s.endswith(p), else s
RemoveSuffix(s, p) == IF EndsWith(s, p) THEN DropLast(s, Len(p)) ELSE s

\* a mutant of SanitizeReply: the trailing marker is left in place
SanitizeReplyKeepTrailing(r) ==
    Strip(RemovePrefix(RemovePrefix(Strip(r), FenceJson), Fence))

\* response_text.strip(); [7:] if it starts with the tagged marker; [3:] if
\* it (then) starts with the marker; [:-3] if it ends with the marker; strip()
SanitizeReply(r) ==
    Strip(RemoveSuffix(RemovePrefix(RemovePrefix(Strip(r), FenceJson), Fence), Fence))

-----------------------------------------------------------------------------
(* json.loads, on the JSON grammar without string escapes, fractions and   *)
(* exponents (the characters \, . and e+ are not in the replies modelled)  *)

\* Parsed values.  Every value is a record of the same four fields: t the
\* JSON type, n the number, s the string, m the members (a sequence for an
\* array, a function from keys to values for an object).
JNull == [t |-> "null", n |-> 0, s |-> <<>>, m |-> <<>>]

JBool(b) == [t |-> "bool", n |-> IF b THEN 1 ELSE 0, s |-> <<>>, m |-> <<>>]

JNum(k) == [t |-> "num", n |-> k, s |-> <<>>, m |-> <<>>]

JStr(cs) == [t |-> "str", n |-> 0, s |-> cs, m |-> <<>>]

JArr(vs) == [t |-> "arr", n |-> 0, s |-> <<>>, m |-> vs]

JObj(f) == [t |-> "obj", n |-> 0, s |-> <<>>, m |-> f]

\* d[key] = v on a dict
DictSet(f, key, v) == [k \in (DOMAIN f) \cup {key} |-> IF k = key THEN v ELSE f[k]]

Digits == {"0", "1", "2", "3", "4", "5", "6", "7", "8", "9"}

DigitVal(c) ==
    CASE c = "0" -> 0 [] c = "1" -> 1 [] c = "2" -> 2 [] c = "3" -> 3
      [] c = "4" -> 4 [] c = "5" -> 5 [] c = "6" -> 6 [] c = "7" -> 7
      [] c = "8" -> 8 [] c = "9" -> 9

ParseFail == [ok |-> FALSE, pos |-> 0, val |-> JNull]

ParseOk(p, v) == [ok |-> TRUE, pos |-> p, val |-> v]

\* the first index from i on that holds no whitespace (Len(s)+1 if none)
SkipWS(s, i) ==
    IF \A k \in i..Len(s) : IsWS(s[k]) THEN Len(s) + 1
    ELSE CHOOSE k \in i..Len(s) : ~IsWS(s[k]) /\ \A j \in i..(k-1) : IsWS(s[j])

\* s[i..] starts with the literal lit
LitAt(s, i, lit) == i + Len(lit) - 1 <= Len(s) /\ SubSeq(s, i, i + Len(lit) - 1) = lit

\* a string: the quote at i, characters up to the next quote; control
\* characters inside a string are rejected (strict mode)
ParseString(s, i) ==
    IF i > Len(s) \/ s[i] # "\"" THEN ParseFail
    ELSE IF \A k \in (i+1)..Len(s) : s[k] # "\"" THEN ParseFail
    ELSE LET close == CHOOSE k \in (i+1)..Len(s) :
                         s[k] = "\"" /\ \A j \in (i+1)..(k-1) : s[j] # "\""
             body  == SubSeq(s, i + 1, close - 1)
         IN IF \E k \in 1..Len(body) : body[k] \in {"\n", "\t", "\r", "\\"}
            THEN ParseFail
            ELSE ParseOk(close + 1, JStr(body))

RECURSIVE DigitsValue(_)
DigitsValue(ds) ==
    IF ds = <<>> THEN 0
    ELSE 10 * DigitsValue(SubSeq(ds, 1, Len(ds) - 1)) + DigitVal(ds[Len(ds)])

\* an integer: -? (0 | [1-9][0-9]*)
ParseNumber(s, i) ==
    LET neg   == i <= Len(s) /\ s[i] = "-"
        start == IF neg THEN i + 1 ELSE i
        stop  == IF \A k \in start..Len(s) : s[k] \in Digits THEN Len(s) + 1
                 ELSE CHOOSE k \in start..Len(s) :
                         s[k] \notin Digits /\ \A j \in start..(k-1) : s[j] \in Digits
        ds    == SubSeq(s, start, stop - 1)
    IN  IF ds = <<>> THEN ParseFail
        ELSE IF Len(ds) > 1 /\ ds[1] = "0" THEN ParseOk(start + 1, JNum(0))
        ELSE ParseOk(stop, JNum(IF neg THEN 0 - DigitsValue(ds) ELSE DigitsValue(ds)))

RECURSIVE ParseValue(_, _)
RECURSIVE ParseMembers(_, _, _), MembersAfterKey(_, _, _), MembersAfterColon(_, _, _, _)
RECURSIVE MembersAfterValue(_, _, _, _), MembersNext(_, _, _)
RECURSIVE ParseElements(_, _, _), ElementsAfterValue(_, _, _), ElementsNext(_, _, _)

\* after a member: the closing brace, or a comma and the next member
MembersNext(s, f, next) ==
    IF next > Len(s) THEN ParseFail
    ELSE IF s[next] = "}" THEN ParseOk(next + 1, JObj(f))
    ELSE IF s[next] = "," THEN ParseMembers(s, SkipWS(s, next + 1), f)
    ELSE ParseFail

\* the value v of the member key is read: a later member of the same key
\* replaces an earlier one
MembersAfterValue(s, f, key, v) ==
    IF ~v.ok THEN ParseFail
    ELSE MembersNext(s, DictSet(f, key.val.s, v.val), SkipWS(s, v.pos))

\* the colon, then the value
MembersAfterColon(s, f, key, colon) ==
    IF colon > Len(s) \/ s[colon] # ":" THEN ParseFail
    ELSE MembersAfterValue(s, f, key, ParseValue(s, SkipWS(s, colon + 1)))

MembersAfterKey(s, f, key) ==
    IF ~key.ok THEN ParseFail
    ELSE MembersAfterColon(s, f, key, SkipWS(s, key.pos))

\* the members of an object from the key at i on; f holds the members read
ParseMembers(s, i, f) == MembersAfterKey(s, f, ParseString(s, i))

\* after an element: the closing bracket, or a comma and the next element
ElementsNext(s, vs, next) ==
    IF next > Len(s) THEN ParseFail
    ELSE IF s[next] = "]" THEN ParseOk(next + 1, JArr(vs))
    ELSE IF s[next] = "," THEN ParseElements(s, SkipWS(s, next + 1), vs)
    ELSE ParseFail

ElementsAfterValue(s, vs, v) ==
    IF ~v.ok THEN ParseFail
    ELSE ElementsNext(s, Append(vs, v.val), SkipWS(s, v.pos))

\* the elements of an array from the value at i on; vs holds those read
ParseElements(s, i, vs) == ElementsAfterValue(s, vs, ParseValue(s, i))

\* the object or array opened at i, its first member or element or its
\* closing at j
ParseContainer(s, i, j) ==
    IF s[i] = "{"
    THEN IF j <= Len(s) /\ s[j] = "}" THEN ParseOk(j + 1, JObj(<<>>))
         ELSE ParseMembers(s, j, <<>>)
    ELSE IF j <= Len(s) /\ s[j] = "]" THEN ParseOk(j + 1, JArr(<<>>))
         ELSE ParseElements(s, j, <<>>)

\* one JSON value starting at i
ParseValue(s, i) ==
    IF i > Len(s) THEN ParseFail
    ELSE IF s[i] \in {"{", "["} THEN ParseContainer(s, i, SkipWS(s, i + 1))
    ELSE IF s[i] = "\"" THEN ParseString(s, i)
    ELSE IF LitAt(s, i, <<"n", "u", "l", "l">>) THEN ParseOk(i + 4, JNull)
    ELSE IF LitAt(s, i, <<"t", "r", "u", "e">>) THEN ParseOk(i + 4, JBool(TRUE))
    ELSE IF LitAt(s, i, <<"f", "a", "l", "s", "e">>) THEN ParseOk(i + 5, JBool(FALSE))
    ELSE ParseNumber(s, i)

\* the value r read from s is the result if only whitespace follows it
WholeText(s, r) ==
    IF r.ok /\ SkipWS(s, r.pos) > Len(s)
    THEN [ok |-> TRUE, val |-> r.val]
    ELSE [ok |-> FALSE, val |-> JNull]

\* json.loads(s): one value between optional whitespace, and nothing else
JsonLoads(s) == WholeText(s, ParseValue(s, SkipWS(s, 1)))

-----------------------------------------------------------------------------
(* The customer directory and match_customer_to_database                   *)

UpperCase ==
    <<"A", "B", "C", "D", "E", "F", "G", "H", "I", "J", "K", "L", "M",
      "N", "O", "P", "Q", "R", "S", "T", "U", "V", "W", "X", "Y", "Z">>

LowerCase ==
    <<"a", "b", "c", "d", "e", "f", "g", "h", "i", "j", "k", "l", "m",
      "n", "o", "p", "q", "r", "s", "t", "u", "v", "w", "x", "y", "z">>

\* the case folding of ILIKE
Lower(c) ==
    IF \E k \in 1..Len(UpperCase) : UpperCase[k] = c
    THEN LowerCase[CHOOSE k \in 1..Len(UpperCase) : UpperCase[k] = c]
    ELSE c

RECURSIVE Like(_, _)
\* SQL: s LIKE pat, case-insensitive; % is any run of characters, _ any one
Like(pat, s) ==
    IF pat = <<>> THEN s = <<>>
    ELSE IF pat[1] = "%" THEN Like(Tail(pat), s) \/ (s # <<>> /\ Like(pat, Tail(s)))
    ELSE /\ s # <<>>
         /\ (pat[1] = "_" \/ Lower(pat[1]) = Lower(s[1]))
         /\ Like(Tail(pat), Tail(s))

\* column.ilike(f"%{needle}%")
ILikeContains(column, needle) == Like(<<"%">> \o needle \o <<"%">>, column)

RECURSIVE Split(_)
\* str.split(): the maximal runs of non-whitespace characters
Split(s) ==
    LET t == StripLeadingOnly(s)
    IN  IF t = <<>> THEN <<>>
        ELSE LET stop == IF \A k \in 1..Len(t) : ~IsWS(t[k]) THEN Len(t) + 1
                         ELSE CHOOSE k \in 1..Len(t) :
                                 IsWS(t[k]) /\ \A j \in 1..(k-1) : ~IsWS(t[j])
             IN <<SubSeq(t, 1, stop - 1)>> \o Split(SubSeq(t, stop, Len(t)))

\* NULL in a PersonID or StoreID column
NullId == 0 - 1

\* query(...).filter(...).first(): the first row in the table's order that
\* the filter admits (hit[k] for row k), or None
First(rows, hit) ==
    IF \E k \in 1..Len(rows) : hit[k]
    THEN <<rows[CHOOSE k \in 1..Len(rows) : hit[k] /\ \A j \in 1..(k-1) : ~hit[j]]>>
    ELSE <<>>

\* the result (None, None)
NoMatch == [customer |-> <<>>, detail |-> <<>>, kind |-> "none"]

\* session.query(IndividualCustomer).filter(FirstName.ilike(...),
\* LastName.ilike(...)).first(), when the name has two parts or more
FindIndividual(name_parts, d) ==
    IF Len(name_parts) >= 2
    THEN First(d.IndividualCustomers,
               [k \in 1..Len(d.IndividualCustomers) |->
                   /\ ILikeContains(d.IndividualCustomers[k].FirstName, name_parts[1])
                   /\ ILikeContains(d.IndividualCustomers[k].LastName,
                                    JoinWith(<<" ">>, Tail(name_parts)))])
    ELSE <<>>

\* session.query(Customer).filter(Customer.PersonID == individual.BusinessEntityID).first()
CustomerOfPerson(individual, d) ==
    IF individual # <<>>
    THEN First(d.Customers,
               [k \in 1..Len(d.Customers) |->
                   d.Customers[k].PersonID = individual[1].BusinessEntityID])
    ELSE <<>>

\* session.query(StoreCustomer).filter(StoreCustomer.Name.ilike(...)).first()
FindStore(name, d) ==
    First(d.StoreCustomers,
          [k \in 1..Len(d.StoreCustomers) |-> ILikeContains(d.StoreCustomers[k].Name, name)])

\* the first Customer row, whatever its StoreID
CustomerOfStoreUnfiltered(store, d) ==
    IF store # <<>> /\ d.Customers # <<>> THEN <<d.Customers[1]>> ELSE <<>>

\* session.query(Customer).filter(Customer.StoreID == store.BusinessEntityID).first()
CustomerOfStore(store, d) ==
    IF store # <<>>
    THEN First(d.Customers,
               [k \in 1..Len(d.Customers) |->
                   d.Customers[k].StoreID = store[1].BusinessEntityID])
    ELSE <<>>

\* the store tier, for the store found and its customer
StoreTier(store, owner) ==
    IF owner # <<>>
    THEN [customer |-> owner, detail |-> store, kind |-> "organization"]
    ELSE NoMatch

\* the individual tier alone deciding once an individual is found
MatchTiersNoFallThrough(name, individual, d) ==
    IF individual # <<>>
    THEN IF CustomerOfPerson(individual, d) # <<>>
         THEN [customer |-> CustomerOfPerson(individual, d), detail |-> individual,
               kind |-> "individual"]
         ELSE NoMatch
    ELSE StoreTier(FindStore(name, d), CustomerOfStore(FindStore(name, d), d))

\* the two tiers in order, for the stripped name and the individual found
MatchTiers(name, individual, d) ==
    IF CustomerOfPerson(individual, d) # <<>>
    THEN [customer |-> CustomerOfPerson(individual, d), detail |-> individual,
          kind |-> "individual"]
    ELSE StoreTier(FindStore(name, d), CustomerOfStore(FindStore(name, d), d))

\* match_customer_to_database(customer_name, session) for a non-empty str:
\* the Customer row and the detail row found, each as a sequence of at most
\* one row
MatchCustomer(customer_name, d) ==
    MatchTiers(Strip(customer_name), FindIndividual(Split(Strip(customer_name)), d), d)

-----------------------------------------------------------------------------
(* State of one invocation                                                 *)

VARIABLES
    upload,         \* the file part of the request to POST /upload and its filename
    tables,         \* the tables SalesOrderHeader and SalesOrderDetail, as committed
    requests,       \* the requests to the sales order API in flight, each in its session
    runs,           \* the pipeline invocations in flight side by side
    entry,          \* the function invoked
    customer_name,  \* the customer_name argument of match_customer_to_database
    status,         \* the HTTP status of the response of upload_invoice, 0 if none
    pc,             \* the position in it: "start", ..., "done", "failed"
    db,             \* the customer directory: Customers, IndividualCustomers, StoreCustomers
    pages,          \* the PDF: page.extract_text() of each page, in page order
    text_content,   \* the text argument of the text entry points; the text sent to the model
    all_text,       \* Tier 1: the page texts kept
    tier,           \* which tier produced the recovered text
    raster,         \* the outcome of the rasterization attempt
    images,         \* the number of page images convert_from_bytes returned
    page_no,        \* Tier 2: the page the loop is at
    text_parts,     \* Tier 2: the per-page results so far
    calls,          \* the outbound calls made so far, in order
    raw,            \* the reply of the structured-extraction model call
    cleaned,        \* response_text after the clean-up
    extracted_data, \* json.loads(response_text)
    match,          \* the result of match_customer_to_database
    result,         \* the value returned
    failure         \* the exception raised to the caller

vars == <<upload, tables, requests, runs, entry, customer_name, status, pc, db, pages, text_content, all_text, tier, raster, images,
          page_no, text_parts, calls, raw, cleaned, extracted_data, match,
          result, failure>>

\* no file part, for the functions that are given none
NoUpload == [has_file |-> FALSE, filename |-> <<>>, size |-> 0, content_type |-> ""]

\* the tables of an invocation that does not touch them
NoTables == [headers |-> {}, details |-> {}]

PdfGptEntries == {"extract_text_from_pdf_gpt", "extract_data_from_pdf_gpt"}

NoResult == [kind |-> "none", text |-> <<>>, data |-> JNull]

TextResult(t) == [kind |-> "text", text |-> t, data |-> JNull]

DataResult(v) == [kind |-> "data", text |-> <<>>, data |-> v]

NoFailure == [exc |-> "none", msg |-> "", cause |-> "", diag |-> <<>>]

\* raise ValueError(f"{msg}: ..."); cause is what went wrong first, diag the
\* reply text the message carries
ValueError(msg, cause, diag) ==
    [exc |-> "ValueError", msg |-> msg, cause |-> cause, diag |-> diag]

\* an exception of another type, raised by the interpreter and not caught
Uncaught(exc, cause) == [exc |-> exc, msg |-> "", cause |-> cause, diag |-> <<>>]

NoReply == [kind |-> "no_call", text |-> <<>>]

TextReply(t) == [kind |-> "text", text |-> t]

\* message.content is None
NoneReply == [kind |-> "none", text |-> <<>>]

\* the client raises openai.APIError / anthropic.APIError
APIErrorReply == [kind |-> "api_error", text |-> <<>>]

NotAttempted == [customer |-> <<>>, detail |-> <<>>, kind |-> "not_attempted"]

\* an outbound call: api is "rasterize", "vision" (text recovery for the image
\* of a page) or "extract" (structured extraction); page is the page whose
\* image is sent, 0 if none; text is the text sent with an "extract" call of
\* page 0, and the reply received to a "vision" call
Call(api, page, text) == [api |-> api, page |-> page, text |-> text]

-----------------------------------------------------------------------------
(* Tier 1 of the PDF text recovery                                         *)

\* a mutant of KeptPages: the text of every page is kept
KeptPagesAll(ps) == ps

\* for page in pdf_reader.pages: if page_text and page_text.strip(): append
KeptPages(ps) == SelectSeq(ps, LAMBDA t : ~IsBlank(t))

\* sum(len(text.strip()) for text in all_text)
total_text_length(texts) == SumSeq([k \in 1..Len(texts) |-> Len(Strip(texts[k]))])

\* a mutant of Tier1Accepted: the threshold itself is accepted
Tier1AcceptedAtThreshold(texts) == total_text_length(texts) >= TextThreshold

\* a mutant of Tier1Accepted: any text of Tier 1 is accepted
Tier1AcceptedAnyText(texts) == texts # <<>>

\* if total_text_length > 100
Tier1Accepted(texts) == total_text_length(texts) > TextThreshold

\* a mutant of HasPartialText: one page with text is not enough
HasPartialTextOfPages(texts) == Len(texts) > 1

\* except ImportError: if all_text
HasPartialText(texts) == texts # <<>>

-----------------------------------------------------------------------------
(* The structured-extraction call: reply, clean-up, json.loads             *)

\* What differs between the copies of the call: the message of the
\* except-APIError clause, the message of the except-Exception clause,
\* whether an empty reply is tested for, whether the parse failure carries
\* the reply text.
Backend(e) ==
    CASE e = "extract_invoice_data_from_text" ->
            [api_msg |-> "OpenAI API error", msg |-> "Error calling OpenAI API",
             empty_test |-> TRUE, carries_text |-> TRUE]
      [] e = "extract_data_from_image_gpt" ->
            [api_msg |-> "OpenAI API error",
             msg |-> "Failed to extract data from image using GPT",
             empty_test |-> TRUE, carries_text |-> TRUE]
      [] e = "extract_data_from_pdf_gpt" ->
            [api_msg |-> "Failed to extract data from PDF using GPT",
             msg |-> "Failed to extract data from PDF using GPT",
             empty_test |-> TRUE, carries_text |-> TRUE]
      [] e = "call_anthropic_api" ->
            [api_msg |-> "Anthropic API error", msg |-> "Error calling Anthropic API",
             empty_test |-> FALSE, carries_text |-> FALSE]

\* a mutant of Diagnostic: the whole reply text is carried
DiagnosticUntruncated(response_text) == response_text

\* response_text[:500] in the message of the parse failure
Diagnostic(response_text) == Take(response_text, DiagLimit)

\* the parse failure of backend b for the cleaned text
ParseFailure(b, text) ==
    ValueError(b.msg, "JSONDecodeError", IF b.carries_text THEN Diagnostic(text) ELSE <<>>)

\* try: json.loads(response_text) except json.JSONDecodeError
Loaded(b, text, j) ==
    IF j.ok
    THEN [ok |-> TRUE, data |-> j.val, cleaned |-> text, failure |-> NoFailure]
    ELSE [ok |-> FALSE, data |-> JNull, cleaned |-> text, failure |-> ParseFailure(b, text)]

\* the clean-up of the reply text and json.loads of what is left
CleanAndLoad(b, text) == Loaded(b, text, JsonLoads(text))

\* from the reply to the return or the raise of the call in backend b: the
\* except clauses, the empty test, the clean-up, json.loads
ParseReplyOf(b, reply) ==
    IF reply.kind = "api_error"
    THEN [ok |-> FALSE, data |-> JNull, cleaned |-> <<>>,
          failure |-> ValueError(b.api_msg, "APIError", <<>>)]
    ELSE IF b.empty_test /\ (reply.kind = "none" \/ reply.text = <<>>)
    THEN [ok |-> FALSE, data |-> JNull, cleaned |-> <<>>,
          failure |-> ValueError(b.msg, "EmptyResponse", <<>>)]
    ELSE CleanAndLoad(b, SanitizeReply(reply.text))

ParseReply(e, reply) == ParseReplyOf(Backend(e), reply)

-----------------------------------------------------------------------------
(* The merge of the resolved identifiers into the header                   *)

KeyHeader == <<"h", "e", "a", "d", "e", "r">>

KeyLineItems == <<"l", "i", "n", "e", "_", "i", "t", "e", "m", "s">>

KeyCustomerName ==
    <<"e", "x", "t", "r", "a", "c", "t", "e", "d", "_",
      "c", "u", "s", "t", "o", "m", "e", "r", "_", "n", "a", "m", "e">>

KeyCustomerID == <<"C", "u", "s", "t", "o", "m", "e", "r", "I", "D">>

KeyTerritoryID == <<"T", "e", "r", "r", "i", "t", "o", "r", "y", "I", "D">>

\* the customer name of the hard-coded extracted_data
NameIsabellaTorres == <<"I", "s", "a", "b", "e", "l", "l", "a", " ", "T", "o", "r", "r", "e", "s">>

\* bool(v) of a parsed value
Truthy(v) ==
    CASE v.t = "null" -> FALSE
      [] v.t = "bool" -> v.n = 1
      [] v.t = "num"  -> v.n # 0
      [] v.t = "str"  -> v.s # <<>>
      [] v.t = "arr"  -> v.m # <<>>
      [] v.t = "obj"  -> DOMAIN v.m # {}

\* sub in s, of two str
IsSubstring(sub, s) ==
    \E k \in 1..(Len(s) - Len(sub) + 1) : SubSeq(s, k, k + Len(sub) - 1) = sub

\* key in v is evaluated without a TypeError: v is a dict, a list or a str
Iterable(v) == v.t \in {"obj", "arr", "str"}

\* key in v, of an iterable v
Contains(v, key) ==
    CASE v.t = "obj" -> key \in DOMAIN v.m
      [] v.t = "arr" -> \E k \in 1..Len(v.m) : v.m[k].t = "str" /\ v.m[k].s = key
      [] v.t = "str" -> IsSubstring(key, v.s)

\* the assignment made without the truth test
TruthyIdUntested(id) == TRUE

\* bool(customer_id) of an identifier column
TruthyId(id) == id # NullId /\ id # 0

\* if "header" in extracted_data: extracted_data["header"][key] = id
SetHeaderId(data, key, id) ==
    IF KeyHeader \in DOMAIN data.m
    THEN JObj(DictSet(data.m, KeyHeader,
                      JObj(DictSet(data.m[KeyHeader].m, key, JNum(id)))))
    ELSE data

\* if "header" in extracted_data: the two assignments, each under its
\* truth test; an assignment into a header that is no dict raises TypeError
MergeHeader(data, m, cid, tid) ==
    IF KeyHeader \in DOMAIN data.m /\ (TruthyId(cid) \/ TruthyId(tid))
       /\ data.m[KeyHeader].t # "obj"
    THEN [ok |-> FALSE, data |-> data, match |-> m,
          failure |-> Uncaught("TypeError", "header")]
    ELSE [ok |-> TRUE, match |-> m, failure |-> NoFailure,
          data |-> IF TruthyId(tid)
                   THEN SetHeaderId(IF TruthyId(cid)
                                    THEN SetHeaderId(data, KeyCustomerID, cid)
                                    ELSE data, KeyTerritoryID, tid)
                   ELSE IF TruthyId(cid) THEN SetHeaderId(data, KeyCustomerID, cid)
                   ELSE data]

\* customer_id, territory_id = match_customer_to_database(...), then the
\* update of the header
MergeMatch(data, m) ==
    IF m.customer # <<>>
    THEN MergeHeader(data, m, m.customer[1].CustomerID, m.customer[1].TerritoryID)
    ELSE MergeHeader(data, m, NullId, NullId)

\* extract_invoice_data_from_text after the call: the look-up of the
\* extracted customer name and the update of the header
MergeCustomer(data, d) ==
    IF ~Iterable(data)
    THEN [ok |-> FALSE, data |-> data, match |-> NotAttempted,
          failure |-> Uncaught("TypeError", "in")]
    ELSE IF ~Contains(data, KeyCustomerName)
    THEN [ok |-> TRUE, data |-> data, match |-> NotAttempted, failure |-> NoFailure]
    ELSE IF data.t # "obj"
    THEN [ok |-> FALSE, data |-> data, match |-> NotAttempted,
          failure |-> Uncaught("AttributeError", "get")]
    ELSE IF ~Truthy(data.m[KeyCustomerName])
    THEN [ok |-> TRUE, data |-> data, match |-> NotAttempted, failure |-> NoFailure]
    ELSE IF data.m[KeyCustomerName].t # "str"
    THEN [ok |-> FALSE, data |-> data, match |-> NotAttempted,
          failure |-> Uncaught("AttributeError", "strip")]
    ELSE MergeMatch(data, MatchCustomer(data.m[KeyCustomerName].s, d))

\* match_customer_to_database(customer_name, session), customer_name None
\* or a str: if not customer_name: return None, None
match_customer_to_database(name, d) ==
    IF ~Truthy(name) THEN NoMatch ELSE MatchCustomer(name.s, d)

\* a dict literal: the object of the members given, each <<key, value>>
Dict(members) ==
    JObj([k \in {members[i][1] : i \in 1..Len(members)} |->
            members[CHOOSE i \in 1..Len(members) : members[i][1] = k][2]])

\* an identifier column as a JSON value: None is null
IdValue(id) == IF id = NullId THEN JNull ELSE JNum(id)

\* extract_invoice_data_from_document: the extracted_data the function
\* assigns in place of the extraction by file type (which is commented out)
HardCodedData ==
    Dict(<< <<KeyHeader,
              Dict(<< <<<<"S", "a", "l", "e", "s", "O", "r", "d", "e", "r", "N", "u", "m", "b", "e", "r">>, JStr(<<"1", "1", "2", "2", "3", "3", "4", "4">>)>>,
                      <<<<"O", "r", "d", "e", "r", "D", "a", "t", "e">>, JStr(<<"2", "0", "2", "5", "-", "0", "6", "-", "0", "4">>)>>,
                      <<<<"D", "u", "e", "D", "a", "t", "e">>, JNull>>,
                      <<<<"P", "u", "r", "c", "h", "a", "s", "e", "O", "r", "d", "e", "r", "N", "u", "m", "b", "e", "r">>, JNull>>,
                      <<<<"A", "c", "c", "o", "u", "n", "t", "N", "u", "m", "b", "e", "r">>, JNull>>,
                      <<<<"S", "u", "b", "T", "o", "t", "a", "l">>, JNum(1350)>>,
                      <<<<"T", "a", "x", "A", "m", "t">>, JNum(0)>>,
                      <<<<"T", "o", "t", "a", "l", "D", "u", "e">>, JNum(1350)>> >>)>>,
            <<KeyLineItems,
              JArr(<< Dict(<< <<<<"O", "r", "d", "e", "r", "Q", "t", "y">>, JNum(1)>>,
                              <<<<"P", "r", "o", "d", "u", "c", "t", "I", "D">>, JNull>>,
                              <<<<"P", "r", "o", "d", "u", "c", "t", "D", "e", "s", "c", "r", "i", "p", "t", "i", "o", "n">>, JStr(<<"H", "a", "l", "f", "-", "F", "i", "n", "g", "e", "r", " ", "G", "l", "o", "v", "e", "s", ",", " ", "M">>)>>,
                              <<<<"U", "n", "i", "t", "P", "r", "i", "c", "e">>, JNum(50)>>,
                              <<<<"U", "n", "i", "t", "P", "r", "i", "c", "e", "D", "i", "s", "c", "o", "u", "n", "t">>, JNull>>,
                              <<<<"L", "i", "n", "e", "T", "o", "t", "a", "l">>, JNum(50)>> >>),
                      Dict(<< <<<<"O", "r", "d", "e", "r", "Q", "t", "y">>, JNum(2)>>,
                              <<<<"P", "r", "o", "d", "u", "c", "t", "I", "D">>, JNull>>,
                              <<<<"P", "r", "o", "d", "u", "c", "t", "D", "e", "s", "c", "r", "i", "p", "t", "i", "o", "n">>, JStr(<<"C", "l", "a", "s", "s", "i", "c", " ", "V", "e", "s", "t", ",", " ", "S">>)>>,
                              <<<<"U", "n", "i", "t", "P", "r", "i", "c", "e">>, JNum(600)>>,
                              <<<<"U", "n", "i", "t", "P", "r", "i", "c", "e", "D", "i", "s", "c", "o", "u", "n", "t">>, JNull>>,
                              <<<<"L", "i", "n", "e", "T", "o", "t", "a", "l">>, JNum(1200)>> >>) >>)>>,
            <<KeyCustomerName, JStr(NameIsabellaTorres)>> >>)

KeyCustomer == <<"c", "u", "s", "t", "o", "m", "e", "r">>

KeyCustomerDetail == <<"c", "u", "s", "t", "o", "m", "e", "r", "_", "d", "e", "t", "a", "i", "l">>

\* extracted_data["customer"]: the columns of the Customer row, or None
CustomerValue(m) ==
    IF m.customer = <<>> THEN JNull
    ELSE Dict(<< <<KeyCustomerID, JNum(m.customer[1].CustomerID)>>,
                 <<<<"P", "e", "r", "s", "o", "n", "I", "D">>, IdValue(m.customer[1].PersonID)>>,
                 <<<<"S", "t", "o", "r", "e", "I", "D">>, IdValue(m.customer[1].StoreID)>>,
                 <<KeyTerritoryID, JNum(m.customer[1].TerritoryID)>> >>)

\* extracted_data["customer_detail"]: the columns of the IndividualCustomer
\* or StoreCustomer row, or None
CustomerDetailValue(m) ==
    IF m.detail = <<>> THEN JNull
    ELSE IF m.kind = "individual"
    THEN Dict(<< <<<<"B", "u", "s", "i", "n", "e", "s", "s", "E", "n", "t", "i", "t", "y", "I", "D">>, JNum(m.detail[1].BusinessEntityID)>>,
                 <<<<"F", "i", "r", "s", "t", "N", "a", "m", "e">>, JStr(m.detail[1].FirstName)>>,
                 <<<<"L", "a", "s", "t", "N", "a", "m", "e">>, JStr(m.detail[1].LastName)>> >>)
    ELSE Dict(<< <<<<"B", "u", "s", "i", "n", "e", "s", "s", "E", "n", "t", "i", "t", "y", "I", "D">>, JNum(m.detail[1].BusinessEntityID)>>,
                 <<<<"N", "a", "m", "e">>, JStr(m.detail[1].Name)>> >>)

\* extract_invoice_data_from_document after the assignment: the look-up of
\* the customer name, the keys customer and customer_detail
AttachCustomer(data, m) ==
    JObj(DictSet(DictSet(data.m, KeyCustomer, CustomerValue(m)),
                 KeyCustomerDetail, CustomerDetailValue(m)))

-----------------------------------------------------------------------------
(* Inputs                                                                  *)

X(n) == Rep("x", n)

Half == TextThreshold \div 2

\* page.extract_text() of one page: empty, blank, short, and texts whose
\* trimmed lengths add up to just below, exactly and just above the threshold
PageTexts ==
    { <<>>,
      <<" ", "\n">>,
      X(1),
      X(Half),
      <<" ">> \o X(Half) \o <<"\n">>,
      X(Half + 1),
      X(Half - 10) \o Rep(" ", Half + 1) \o X(Half - 30),
      X(TextThreshold),
      X(TextThreshold + 1) }

PageLists == UNION { [1..n -> PageTexts] : n \in 0..MaxPages }

\* the replies of the vision model to a text-recovery request for one page
VisionReplies ==
    { TextReply(<<"a">>), TextReply(<<" ", "b", "\n">>), TextReply(<<>>),
      TextReply(<<"\n">>), NoneReply, APIErrorReply }

\* image_to_string(image) of the local OCR
OcrTexts == { <<>>, <<" ", "\n">>, <<"a", "\n">> }

\* the text_content argument of the text entry points
Texts == { <<>>, <<" ", "\n">>, <<"I", "N", "V">> }

Q == "\""

Quoted(cs) == <<Q>> \o cs \o <<Q>>

\* the JSON text of an object with the given members, each <<key, value text>>
ObjText(members) ==
    <<"{">> \o JoinWith(<<",">>, [k \in 1..Len(members) |->
                 Quoted(members[k][1]) \o <<":">> \o members[k][2]]) \o <<"}">>

NullText == <<"n", "u", "l", "l">>

NameAnnLee == <<"A", "n", "n", " ", "L", "e", "e">>

NameAcme == <<"A", "c", "m", "e">>

NameZed == <<"Z", "e", "d">>

\* the values a reply gives to extracted_customer_name: null, strings, and
\* a number
NameTexts ==
    { NullText, Quoted(<<>>), Quoted(NameAnnLee), Quoted(NameAcme), Quoted(NameZed), <<"5">> }

\* the values a reply gives to header: objects, and a number
HeaderTexts == { ObjText(<<>>), ObjText(<< <<KeyCustomerID, <<"7">>>> >>), <<"5">> }

\* none or one member under each of the three keys
MemberChoices(key, values) == { <<>> } \cup { << <<key, v>> >> : v \in values }

\* replies that are JSON objects: every subset of the three known keys, with
\* and without a key the schema does not know
ObjectPayloads ==
    { ObjText(h \o l \o n \o x) :
        h \in MemberChoices(KeyHeader, HeaderTexts),
        l \in MemberChoices(KeyLineItems, { <<"[", "]">> }),
        n \in MemberChoices(KeyCustomerName, NameTexts),
        x \in MemberChoices(<<"n", "o", "t", "e">>, { <<"1">> }) }

\* payloads that are JSON but no object, and payloads that are not JSON:
\* truncated, and longer than the diagnostic limit
ValidPayloads == { <<"{", "}">>, <<"[", "1", "]">>, NullText }

InvalidPayloads ==
    { <<"{", Q, "a", Q, ":">>, <<"{">> \o X(DiagLimit), <<"{">> \o X(DiagLimit - 4) }

\* what a reply puts before the payload
Openings ==
    { <<>>, Fence, FenceJson, FenceJson \o Fence, Fence \o Fence,
      Fence \o <<"p", "y">>, Fence \o <<"J", "S", "O", "N">> }

\* what a reply puts after the payload
Closings == { <<>>, Fence, Fence \o Fence }

Spacings == { <<>>, <<"\n">> }

\* a payload with an opening, a closing and white space around each
Wrapped(payloads) ==
    { lead \o open \o sep \o p \o sep \o close \o lead :
        lead \in Spacings, open \in Openings, sep \in Spacings,
        p \in payloads, close \in Closings }

\* the replies of the structured-extraction model
ReplyTexts ==
    Wrapped(ValidPayloads \cup InvalidPayloads)
    \cup ObjectPayloads
    \cup { FenceJson \o <<"\n">> \o p \o <<"\n">> \o Fence : p \in ObjectPayloads }

Replies == { TextReply(t) : t \in ReplyTexts } \cup { TextReply(<<>>), NoneReply, APIErrorReply }

\* the replies in the PDF entry point, where the call follows the recovery
FewReplies ==
    { TextReply(<<"{", "}">>), TextReply(FenceJson \o <<"\n", "[", "]", "\n">> \o Fence),
      TextReply(<<"{">>), TextReply(<<>>), APIErrorReply }

Individual(id, first, last) == [BusinessEntityID |-> id, FirstName |-> first, LastName |-> last]

Store(id, name) == [BusinessEntityID |-> id, Name |-> name]

Customer(id, person, store, territory) ==
    [CustomerID |-> id, PersonID |-> person, StoreID |-> store, TerritoryID |-> territory]

\* directories: one in which the individual and the store each have a
\* customer, one in which the individual has none
Directories ==
    { [IndividualCustomers |-> << Individual(11, <<"A", "n", "n", "a">>, <<"L", "e", "e">>) >>,
       StoreCustomers |-> << Store(21, <<"A", "c", "m", "e", " ", "B", "i", "k", "e", "s">>) >>,
       Customers |-> << Customer(1, 11, NullId, 5), Customer(2, NullId, 21, 6) >>],
      [IndividualCustomers |-> << Individual(11, <<"A", "n", "n", "a">>, <<"L", "e", "e">>) >>,
       StoreCustomers |-> << Store(21, <<"A", "n", "n", " ", "L", "e", "e", "s">>) >>,
       Customers |-> << Customer(2, NullId, 21, 6) >>] }

\* the directory of the invocations that never read it
SomeDirectory == CHOOSE d \in Directories : Len(d.Customers) = 2

\* the customer_name argument of match_customer_to_database: None, empty,
\* whitespace, one token, two tokens and more, in either case, with runs of
\* whitespace, and with the characters % and _
Candidates ==
    { JNull, JStr(<<>>), JStr(<<" ">>), JStr(<<"\t", " ", "\n">>),
      JStr(NameAcme), JStr(<<"a", "c", "m", "e">>), JStr(<<" ", "A", "c", "m", "e", " ">>), JStr(NameZed),
      JStr(NameAnnLee), JStr(<<"a", "n", "n", " ", " ", "l", "e", "e">>), JStr(<<"n", " ", "L", "e", "e">>), JStr(<<"A", "_", "n", " ", "L", "e", "e">>), JStr(<<"m", "a", "r", "y", " ", " ", "a", "n", "n", " ", "	", "l", "e", "e">>),
      JStr(<<"A", "_", "m", "e">>), JStr(<<"A", "%", "s">>), JStr(<<"%">>) }

\* directories for match_customer_to_database: rows in the order of the
\* tables; several rows that match, rows without a customer, no rows
ResolverDirectories ==
    Directories \cup
    { [IndividualCustomers |-> << Individual(11, <<"A", "n", "n">>, <<"L", "e", "e">>), Individual(12, <<"A", "_", "n">>, <<"L", "e", "e">>) >>,
       StoreCustomers |-> << Store(21, <<"A", "c", "m", "e", " ", "B", "i", "k", "e", "s">>), Store(22, <<"A", "_", "m", "e">>), Store(23, <<"A", "n", "n", " ", "L", "e", "e", " ", "C", "y", "c", "l", "e", "s">>) >>,
       Customers |-> << Customer(1, 11, NullId, 5), Customer(3, 12, NullId, 7),
                        Customer(2, NullId, 21, 6), Customer(4, NullId, 22, 8),
                        Customer(5, NullId, 23, 9) >>],
      [IndividualCustomers |-> << Individual(11, <<"A", "n", "n">>, <<"L", "e", "e">>), Individual(12, <<"A", "n", "n", "e">>, <<"L", "e", "e">>),
                                  Individual(13, <<"M", "a", "r", "y">>, <<"A", "n", "n", " ", "L", "e", "e">>) >>,
       StoreCustomers |-> << Store(21, <<"A", "c", "m", "e", " ", "B", "i", "k", "e", "s">>),
                             Store(23, <<"A", "n", "n", " ", "L", "e", "e", " ", "C", "y", "c", "l", "e", "s">>) >>,
       Customers |-> << Customer(3, 12, NullId, 7), Customer(6, 13, NullId, 4),
                        Customer(5, NullId, 23, 9) >>],
      [IndividualCustomers |-> <<>>, StoreCustomers |-> <<>>, Customers |-> <<>>] }

\* directories for extract_invoice_data_from_document: the hard-coded name
\* is an individual with a customer, a store with a customer, or unknown
StubDirectories ==
    { [IndividualCustomers |-> << Individual(31, <<"I", "s", "a", "b", "e", "l", "l", "a">>, <<"T", "o", "r", "r", "e", "s">>) >>,
       StoreCustomers |-> << Store(41, <<"I", "s", "a", "b", "e", "l", "l", "a", " ", "T", "o", "r", "r", "e", "s", " ", "C", "y", "c", "l", "e", "s">>) >>,
       Customers |-> << Customer(8, 31, NullId, 2), Customer(9, NullId, 41, 3) >>],
      [IndividualCustomers |-> << Individual(31, <<"I", "s", "a", "b", "e", "l", "l", "a">>, <<"T", "o", "r", "r", "e", "s">>) >>,
       StoreCustomers |-> << Store(41, <<"I", "s", "a", "b", "e", "l", "l", "a", " ", "T", "o", "r", "r", "e", "s", " ", "C", "y", "c", "l", "e", "s">>) >>,
       Customers |-> << Customer(9, NullId, 41, 3) >>],
      SomeDirectory }

-----------------------------------------------------------------------------
(* Initial states: one invocation of one entry point                       *)

InitLocals ==
    /\ pc = "start"
    /\ tables = NoTables
    /\ requests = <<>>
    /\ runs = <<>>
    /\ status = 0
    /\ all_text = <<>>
    /\ tier = "none"
    /\ raster = "not_attempted"
    /\ images = 0
    /\ page_no = 0
    /\ text_parts = <<>>
    /\ calls = <<>>
    /\ raw = NoReply
    /\ cleaned = <<>>
    /\ extracted_data = JNull
    /\ match = NotAttempted
    /\ result = NoResult
    /\ failure = NoFailure

\* a PDF file given to one of the PDF functions
InitPdf ==
    /\ upload = NoUpload
    /\ customer_name = JNull
    /\ entry \in PdfGptEntries \cup {"extract_text_from_pdf"}
    /\ pages \in PageLists
    /\ text_content = <<>>
    /\ db = SomeDirectory
    /\ InitLocals

\* an image file given to one of the image functions
InitImage ==
    /\ upload = NoUpload
    /\ customer_name = JNull
    /\ entry \in {"extract_text_from_image_gpt", "extract_text_from_image",
                  "extract_data_from_image_gpt"}
    /\ pages = <<>>
    /\ text_content = <<>>
    /\ db = SomeDirectory
    /\ InitLocals

\* a text given to one of the text functions
InitText ==
    /\ upload = NoUpload
    /\ customer_name = JNull
    /\ entry \in {"extract_invoice_data_from_text", "call_anthropic_api"}
    /\ pages = <<>>
    /\ text_content \in Texts
    /\ db \in Directories
    /\ InitLocals

\* a file given to process_invoice_document
InitProcess ==
    /\ upload = NoUpload
    /\ customer_name = JNull
    /\ entry = "process_invoice_document"
    /\ pages \in PageLists
    /\ text_content = <<>>
    /\ db = SomeDirectory
    /\ InitLocals

\* a customer name and a session given to match_customer_to_database
InitMatch ==
    /\ upload = NoUpload
    /\ entry = "match_customer_to_database"
    /\ customer_name \in Candidates
    /\ pages = <<>>
    /\ text_content = <<>>
    /\ db \in ResolverDirectories
    /\ InitLocals

\* document_processor.py: the limits of POST /upload
MAX_FILE_SIZE == 10 * 1024 * 1024

ALLOWED_EXTENSIONS == { <<"p", "d", "f">>, <<"p", "n", "g">>, <<"j", "p", "g">>, <<"j", "p", "e", "g">> }

ALLOWED_MIME_TYPES == { "application/pdf", "image/png", "image/jpeg", "image/jpg" }

\* "." in filename
HasDot(filename) == \E k \in 1..Len(filename) : filename[k] = "."

\* filename.rsplit(".", 1)[1].lower(), of a filename with a dot
Extension(filename) ==
    [k \in 1..(Len(filename) - (CHOOSE d \in 1..Len(filename) :
                                    /\ filename[d] = "."
                                    /\ \A j \in (d + 1)..Len(filename) : filename[j] # ".")) |->
        Lower(filename[k + (CHOOSE d \in 1..Len(filename) :
                               /\ filename[d] = "."
                               /\ \A j \in (d + 1)..Len(filename) : filename[j] # ".")])]

\* allow_file
allow_file(filename) == HasDot(filename) /\ Extension(filename) \in ALLOWED_EXTENSIONS

\* the checks of upload_invoice without the one of the size
AdmissionWithoutSize(u) ==
    IF ~u.has_file THEN 400
    ELSE IF u.filename = <<>> THEN 400
    ELSE IF ~allow_file(u.filename) THEN 415
    ELSE IF u.content_type # "" /\ u.content_type \notin ALLOWED_MIME_TYPES THEN 415
    ELSE 0

\* the checks of upload_invoice in their order: the status of the abort, or
\* 0 when the upload passes them all
Admission(u) ==
    IF ~u.has_file THEN 400
    ELSE IF u.filename = <<>> THEN 400
    ELSE IF ~allow_file(u.filename) THEN 415
    ELSE IF u.size > MAX_FILE_SIZE THEN 413
    ELSE IF u.content_type # "" /\ u.content_type \notin ALLOWED_MIME_TYPES THEN 415
    ELSE 0

\* the filenames given: with and without a dot, with several, in either case
Filenames ==
    { <<>>, <<"a", ".", "p", "d", "f">>, <<"a", ".", "P", "D", "F">>, <<"a", ".", "b", ".", "p", "n", "g">>, <<"a", ".", "j", "p", "g">>, <<"a", ".", "J", "p", "e", "g">>, <<"p", "d", "f">>, <<"a", ".", "t", "x", "t">>, <<"a", ".", "p", "d", "f", ".", "e", "x", "e">>, <<"a", ".">>, <<".", "p", "d", "f">> }

\* the file parts uploaded: none, and every filename with sizes at and just
\* above the limit and with content types inside and outside the list, or none
Uploads ==
    { NoUpload } \cup
    [has_file : {TRUE}, filename : Filenames, size : {0, MAX_FILE_SIZE, MAX_FILE_SIZE + 1},
     content_type : {"", "application/pdf", "image/png", "image/jpeg", "image/jpg",
                     "text/plain", "IMAGE/PNG"}]

\* a request to POST /upload
InitUpload ==
    /\ upload \in Uploads
    /\ entry = "upload_invoice"
    /\ customer_name = JNull
    /\ pages \in {<<>>, <<X(1)>>}
    /\ text_content = <<>>
    /\ db \in StubDirectories
    /\ InitLocals

\* a file and its filename given to extract_invoice_data_from_document by a
\* caller other than upload_invoice
InitDocument ==
    /\ upload \in [has_file : {TRUE}, filename : Filenames, size : {0}, content_type : {""}]
    /\ entry = "extract_invoice_data_from_document"
    /\ customer_name = JNull
    /\ pages \in {<<>>, <<X(1)>>}
    /\ text_content = <<>>
    /\ db \in StubDirectories
    /\ InitLocals

Init == InitPdf \/ InitImage \/ InitText \/ InitProcess \/ InitMatch \/ InitDocument \/ InitUpload

-----------------------------------------------------------------------------
(* Steps shared by the entry points                                        *)

\* return value
Return(v) ==
    /\ result' = v
    /\ failure' = NoFailure
    /\ pc' = "done"

\* the exception recorded, the data at hand returned all the same
RaiseWithPartialResult(f) ==
    /\ result' = DataResult(extracted_data)
    /\ failure' = f
    /\ pc' = "failed"

\* raise f
Raise(f) ==
    /\ result' = NoResult
    /\ failure' = f
    /\ pc' = "failed"

\* the message of the outermost except clause of the recovery functions
RecoveryMsg(e) ==
    CASE e = "extract_text_from_pdf_gpt" -> "Failed to extract text from PDF using GPT"
      [] e = "extract_data_from_pdf_gpt" -> "Failed to extract data from PDF using GPT"
      [] e = "extract_text_from_pdf" -> "Failed to extract text from PDF"
      [] e = "extract_text_from_image_gpt" -> "Failed to extract text from image using GPT"
      [] e = "extract_text_from_image" -> "Failed to extract text from image using OCR"
      [] e = "extract_data_from_image_gpt" -> "Failed to extract data from image using GPT"

\* the outcome r of the call is stored; after a failure the call is open to
\* be made again
AfterCallRetrying(r, next) ==
    /\ cleaned' = r.cleaned
    /\ extracted_data' = r.data
    /\ IF r.ok
       THEN IF next = "done" THEN Return(DataResult(r.data))
            ELSE /\ pc' = next
                 /\ UNCHANGED <<result, failure>>
       ELSE UNCHANGED <<pc, result, failure>>

\* the outcome r of the call is stored; on success the entry continues at
\* pc next, or returns the data
AfterCall(r, next) ==
    /\ cleaned' = r.cleaned
    /\ extracted_data' = r.data
    /\ IF r.ok
       THEN IF next = "done" THEN Return(DataResult(r.data))
            ELSE /\ pc' = next
                 /\ UNCHANGED <<result, failure>>
       ELSE Raise(r.failure)

\* the structured-extraction call with the reply, up to its return or raise
ExtractionCall(reply, sent, next) ==
    /\ calls' = Append(calls, sent)
    /\ raw' = reply
    /\ AfterCall(ParseReply(entry, reply), next)

-----------------------------------------------------------------------------
(* extract_text_from_pdf_gpt and extract_data_from_pdf_gpt                 *)

\* PdfReader(file) or page.extract_text() raises
PdfReaderFails ==
    /\ pc = "start"
    /\ entry \in PdfGptEntries \cup {"extract_text_from_pdf"}
    /\ Raise(ValueError(RecoveryMsg(entry), "PdfReader", <<>>))
    /\ UNCHANGED <<upload, tables, requests, runs, entry, customer_name, status, db, pages, text_content, all_text, tier, raster, images,
                   page_no, text_parts, calls, raw, cleaned, extracted_data, match>>

\* Tier 1: the text layer of every page, and the decision on its length
Tier1Extract ==
    /\ pc = "start"
    /\ entry \in PdfGptEntries
    /\ all_text' = KeptPages(pages)
    /\ IF Tier1Accepted(all_text')
       THEN /\ tier' = "Tier-1"
            /\ IF entry = "extract_text_from_pdf_gpt"
               THEN /\ Return(TextResult(JoinNL(all_text')))
                    /\ UNCHANGED text_content
               ELSE /\ text_content' = JoinNL(all_text')
                    /\ pc' = "extract_text"
                    /\ UNCHANGED <<result, failure>>
       ELSE /\ pc' = "rasterize"
            /\ UNCHANGED <<tier, text_content, result, failure>>
    /\ UNCHANGED <<upload, tables, requests, runs, entry, customer_name, status, db, pages, raster, images, page_no, text_parts, calls,
                   raw, cleaned, extracted_data, match>>

\* from pdf2image import convert_from_bytes raises ImportError: the text of
\* Tier 1 is used if there is any
RasterizeImportError ==
    /\ pc = "rasterize"
    /\ raster' = "import_error"
    /\ IF HasPartialText(all_text)
       THEN /\ tier' = "Tier-1-partial"
            /\ IF entry = "extract_text_from_pdf_gpt"
               THEN /\ Return(TextResult(JoinNL(all_text)))
                    /\ UNCHANGED text_content
               ELSE /\ text_content' = JoinNL(all_text)
                    /\ pc' = "extract_text"
                    /\ UNCHANGED <<result, failure>>
       ELSE /\ Raise(ValueError(RecoveryMsg(entry), "NoRasterizer", <<>>))
            /\ UNCHANGED <<tier, text_content>>
    /\ UNCHANGED <<upload, tables, requests, runs, entry, customer_name, status, db, pages, all_text, images, page_no, text_parts, calls,
                   raw, cleaned, extracted_data, match>>

\* convert_from_bytes(pdf_bytes, dpi=200) returns one image per page
RasterizeOk ==
    /\ pc = "rasterize"
    /\ raster' = "ok"
    /\ calls' = Append(calls, Call("rasterize", 0, <<>>))
    /\ images' = Len(pages)
    /\ page_no' = 1
    /\ pc' = IF entry = "extract_text_from_pdf_gpt" THEN "vision" ELSE "extract_image"
    /\ UNCHANGED <<upload, tables, requests, runs, entry, customer_name, status, db, pages, text_content, all_text, tier, text_parts,
                   raw, cleaned, extracted_data, match, result, failure>>

\* convert_from_bytes raises (poppler is missing, the file is damaged)
RasterizeRaises ==
    /\ pc = "rasterize"
    /\ raster' = "error"
    /\ calls' = Append(calls, Call("rasterize", 0, <<>>))
    /\ Raise(ValueError(RecoveryMsg(entry), "Rasterize", <<>>))
    /\ UNCHANGED <<upload, tables, requests, runs, entry, customer_name, status, db, pages, text_content, all_text, tier, images,
                   page_no, text_parts, raw, cleaned, extracted_data, match>>

\* a mutant of AppendPart: the result of a page is put in front
PrependPart(parts, page_text) == <<page_text>> \o parts

\* text_parts.append(page_text)
AppendPart(parts, page_text) == Append(parts, page_text)

\* Tier 2 of extract_text_from_pdf_gpt: the vision call for the next page
VisionPage ==
    /\ pc = "vision"
    /\ page_no <= images
    /\ \E reply \in VisionReplies :
         /\ calls' = Append(calls, Call("vision", page_no, reply.text))
         /\ IF reply.kind = "text"
            THEN /\ text_parts' = AppendPart(text_parts, Strip(reply.text))
                 /\ page_no' = page_no + 1
                 /\ UNCHANGED <<pc, result, failure>>
            ELSE /\ Raise(ValueError(RecoveryMsg(entry),
                                     IF reply.kind = "api_error" THEN "APIError"
                                     ELSE "AttributeError", <<>>))
                 /\ UNCHANGED <<text_parts, page_no>>
    /\ UNCHANGED <<upload, tables, requests, runs, entry, customer_name, status, db, pages, text_content, all_text, tier, raster, images,
                   raw, cleaned, extracted_data, match>>

\* Tier 2 of extract_text_from_pdf_gpt: return "\n".join(text_parts)
ReturnTier2 ==
    /\ pc = "vision"
    /\ page_no > images
    /\ tier' = "Tier-2"
    /\ Return(TextResult(JoinNL(text_parts)))
    /\ UNCHANGED <<upload, tables, requests, runs, entry, customer_name, status, db, pages, text_content, all_text, raster, images,
                   page_no, text_parts, calls, raw, cleaned, extracted_data, match>>

\* extract_data_from_pdf_gpt: extract_data_from_text_gpt(text_content)
ExtractFromText ==
    /\ pc = "extract_text"
    /\ \E reply \in FewReplies :
         ExtractionCall(reply, Call("extract", 0, text_content), "done")
    /\ UNCHANGED <<upload, tables, requests, runs, entry, customer_name, status, db, pages, text_content, all_text, tier, raster, images,
                   page_no, text_parts, match>>

\* extract_data_from_pdf_gpt: the call with the image of the first page;
\* images[0] of an empty list raises IndexError
ExtractFromFirstPage ==
    /\ pc = "extract_image"
    /\ IF images = 0
       THEN /\ Raise(ValueError(RecoveryMsg(entry), "IndexError", <<>>))
            /\ UNCHANGED <<calls, raw, cleaned, extracted_data>>
       ELSE \E reply \in FewReplies :
               ExtractionCall(reply, Call("extract", 1, <<>>), "done")
    /\ UNCHANGED <<upload, tables, requests, runs, entry, customer_name, status, db, pages, text_content, all_text, tier, raster, images,
                   page_no, text_parts, match>>

-----------------------------------------------------------------------------
(* document_processor.py: the local recovery                               *)

\* extract_text_from_pdf: the text layer of every page, joined
ExtractTextLocal ==
    /\ pc = "start"
    /\ entry = "extract_text_from_pdf"
    /\ tier' = "Tier-1"
    /\ Return(TextResult(JoinNL(pages)))
    /\ UNCHANGED <<upload, tables, requests, runs, entry, customer_name, status, db, pages, text_content, all_text, raster, images,
                   page_no, text_parts, calls, raw, cleaned, extracted_data, match>>

\* extract_text_from_image: image_to_string(image), or an exception of it
OcrImage ==
    /\ pc = "start"
    /\ entry = "extract_text_from_image"
    /\ \/ \E t \in OcrTexts :
            /\ tier' = "Tier-2"
            /\ Return(TextResult(t))
       \/ /\ Raise(ValueError(RecoveryMsg(entry), "OCR", <<>>))
          /\ UNCHANGED tier
    /\ UNCHANGED <<upload, tables, requests, runs, entry, customer_name, status, db, pages, text_content, all_text, raster, images,
                   page_no, text_parts, calls, raw, cleaned, extracted_data, match>>

-----------------------------------------------------------------------------
(* The image functions of the vision path                                  *)

\* extract_text_from_image_gpt: one vision call, return extracted_text.strip()
VisionImage ==
    /\ pc = "start"
    /\ entry = "extract_text_from_image_gpt"
    /\ \E reply \in VisionReplies :
         /\ calls' = Append(calls, Call("vision", 1, reply.text))
         /\ IF reply.kind = "text"
            THEN /\ tier' = "Tier-2"
                 /\ Return(TextResult(Strip(reply.text)))
            ELSE /\ Raise(ValueError(IF reply.kind = "api_error" THEN "OpenAI API error"
                                     ELSE RecoveryMsg(entry),
                                     IF reply.kind = "api_error" THEN "APIError"
                                     ELSE "AttributeError", <<>>))
                 /\ UNCHANGED tier
    /\ UNCHANGED <<upload, tables, requests, runs, entry, customer_name, status, db, pages, text_content, all_text, raster, images,
                   page_no, text_parts, raw, cleaned, extracted_data, match>>

\* extract_data_from_image_gpt: the structured-extraction call with the image
ExtractFromImage ==
    /\ pc = "start"
    /\ entry = "extract_data_from_image_gpt"
    /\ \E reply \in Replies : ExtractionCall(reply, Call("extract", 1, <<>>), "done")
    /\ UNCHANGED <<upload, tables, requests, runs, entry, customer_name, status, db, pages, text_content, all_text, tier, raster, images,
                   page_no, text_parts, match>>

-----------------------------------------------------------------------------
(* openai_invoice_data.py: extract_invoice_data_from_text                  *)

\* a mutant of NoTextContent: the text is not stripped for the test
NoTextContentUnstripped(t) == t = <<>>

\* not text_content or not text_content.strip()
NoTextContent(t) == t = <<>> \/ IsBlank(t)

\* if not text_content or not text_content.strip(): raise ValueError
GuardText ==
    /\ pc = "start"
    /\ entry = "extract_invoice_data_from_text"
    /\ IF NoTextContent(text_content)
       THEN Raise(ValueError("No text content provided for extraction", "NoText", <<>>))
       ELSE /\ pc' = "call_api"
            /\ UNCHANGED <<result, failure>>
    /\ UNCHANGED <<upload, tables, requests, runs, entry, customer_name, status, db, pages, text_content, all_text, tier, raster, images,
                   page_no, text_parts, calls, raw, cleaned, extracted_data, match>>

\* extracted_data = call_openai_api(text_content)
CallOpenAI ==
    /\ pc = "call_api"
    /\ entry = "extract_invoice_data_from_text"
    /\ \E reply \in Replies :
         ExtractionCall(reply, Call("extract", 0, text_content), "resolve")
    /\ UNCHANGED <<upload, tables, requests, runs, entry, customer_name, status, db, pages, text_content, all_text, tier, raster, images,
                   page_no, text_parts, match>>

\* return extracted_data, or the exception of the merge
AfterMerge(r) ==
    /\ match' = r.match
    /\ IF r.ok THEN Return(DataResult(r.data)) ELSE Raise(r.failure)

\* the look-up of the customer in a session of its own, the update of the
\* header, return extracted_data
ResolveAndMerge ==
    /\ pc = "resolve"
    /\ AfterMerge(MergeCustomer(extracted_data, db))
    /\ UNCHANGED <<upload, tables, requests, runs, entry, customer_name, status, db, pages, text_content, all_text, tier, raster, images,
                   page_no, text_parts, calls, raw, cleaned, extracted_data>>

-----------------------------------------------------------------------------
(* claude_data_finder.py                                                   *)

\* call_anthropic_api(text_content)
CallAnthropic ==
    /\ pc = "start"
    /\ entry = "call_anthropic_api"
    /\ \E reply \in Replies \ {NoneReply} :
         ExtractionCall(reply, Call("extract", 0, text_content), "done")
    /\ UNCHANGED <<upload, tables, requests, runs, entry, customer_name, status, db, pages, text_content, all_text, tier, raster, images,
                   page_no, text_parts, match>>

\* process_invoice_document: its first statement calls
\* extract_text_from_document, a name the module neither defines nor imports
ProcessInvoiceDocument ==
    /\ pc = "start"
    /\ entry = "process_invoice_document"
    /\ Raise(Uncaught("NameError", "extract_text_from_document"))
    /\ UNCHANGED <<upload, tables, requests, runs, entry, customer_name, status, db, pages, text_content, all_text, tier, raster, images,
                   page_no, text_parts, calls, raw, cleaned, extracted_data, match>>

-----------------------------------------------------------------------------
(* match_customer_to_database, called by itself                            *)

\* the value returned by match_customer_to_database
MatchResult == [kind |-> "match", text |-> <<>>, data |-> JNull]

MatchCustomerToDatabase ==
    /\ pc = "start"
    /\ entry = "match_customer_to_database"
    /\ match' = match_customer_to_database(customer_name, db)
    /\ Return(MatchResult)
    /\ UNCHANGED <<upload, tables, requests, runs, entry, customer_name, status, db, pages, text_content, all_text,
                   tier, raster, images, page_no, text_parts, calls, raw, cleaned,
                   extracted_data>>

-----------------------------------------------------------------------------
(* openai_full_data_extraction.py: extract_invoice_data_from_document, and *)
(* app.py: upload_invoice for an upload it admits                          *)

\* upload_invoice: return jsonify(extracted_data), 200 / abort(500)
Respond(code) ==
    status' = IF entry = "upload_invoice" THEN code ELSE status

\* upload_invoice up to its try: abort with the status of the first check
\* that fails, or go on to the call of the pipeline
UploadInvoice ==
    /\ pc = "start"
    /\ entry = "upload_invoice"
    /\ IF Admission(upload) = 0
       THEN pc' = "admitted" /\ UNCHANGED status
       ELSE pc' = "rejected" /\ status' = Admission(upload)
    /\ UNCHANGED <<upload, tables, requests, runs, entry, customer_name, db, pages, text_content,
                   all_text, tier, raster, images, page_no, text_parts, calls, raw, cleaned,
                   extracted_data, match, result, failure>>

\* the pipeline function is entered: called by itself, or by upload_invoice
\* for an upload that passed the checks
DocumentEntered ==
    \/ pc = "start" /\ entry = "extract_invoice_data_from_document"
    \/ pc = "admitted" /\ entry = "upload_invoice"

\* extract_invoice_data_from_document: the hard-coded extracted_data, the
\* look-up of its customer name, the keys customer and customer_detail;
\* no text is recovered and no model is called
ExtractInvoiceDataFromDocument ==
    /\ DocumentEntered
    /\ extracted_data' = HardCodedData
    /\ match' = match_customer_to_database(HardCodedData.m[KeyCustomerName], db)
    /\ Return(DataResult(AttachCustomer(HardCodedData, match')))
    /\ Respond(200)
    /\ UNCHANGED <<upload, tables, requests, runs, entry, customer_name, db, pages, text_content, all_text, tier,
                   raster, images, page_no, text_parts, calls, raw, cleaned>>

\* get_db_session() or a query of the look-up raises: the exception leaves
\* the function; upload_invoice answers abort(500)
SessionRaises ==
    /\ \/ DocumentEntered
       \/ /\ pc = "resolve"
          /\ extracted_data.t = "obj"
          /\ KeyCustomerName \in DOMAIN extracted_data.m
          /\ Truthy(extracted_data.m[KeyCustomerName])
    /\ Raise(Uncaught("OperationalError", "session"))
    /\ Respond(500)
    /\ UNCHANGED <<upload, tables, requests, runs, entry, customer_name, db, pages, text_content, all_text, tier,
                   raster, images, page_no, text_parts, calls, raw, cleaned,
                   extracted_data, match>>

-----------------------------------------------------------------------------

Next ==
    \/ PdfReaderFails
    \/ Tier1Extract
    \/ RasterizeImportError
    \/ RasterizeOk
    \/ RasterizeRaises
    \/ VisionPage
    \/ ReturnTier2
    \/ ExtractFromText
    \/ ExtractFromFirstPage
    \/ ExtractTextLocal
    \/ OcrImage
    \/ VisionImage
    \/ ExtractFromImage
    \/ GuardText
    \/ CallOpenAI
    \/ ResolveAndMerge
    \/ CallAnthropic
    \/ ProcessInvoiceDocument
    \/ MatchCustomerToDatabase
    \/ UploadInvoice
    \/ ExtractInvoiceDataFromDocument
    \/ SessionRaises

Spec == Init /\ [][Next]_vars

-----------------------------------------------------------------------------
(* Pipeline invocations side by side: requests served by threads of the    *)
(* same process.  Each invocation has the locals of its own call; the      *)
(* customer directory is the one thing they all reach.                     *)

\* the number of invocations in flight
MaxRuns == 2

RunIds == 1..MaxRuns

\* the variables of the single invocation, of no use here
invocation ==
    <<upload, entry, customer_name, status, pc, pages, text_content, all_text, tier,
      raster, images, page_no, text_parts, calls, raw, cleaned, extracted_data, match,
      result, failure>>

NoInvocation ==
    /\ upload = NoUpload
    /\ entry = "none"
    /\ customer_name = JNull
    /\ status = 0
    /\ pc = "none"
    /\ pages = <<>>
    /\ text_content = <<>>
    /\ all_text = <<>>
    /\ tier = "none"
    /\ raster = "not_attempted"
    /\ images = 0
    /\ page_no = 0
    /\ text_parts = <<>>
    /\ calls = <<>>
    /\ raw = NoReply
    /\ cleaned = <<>>
    /\ extracted_data = JNull
    /\ match = NotAttempted
    /\ result = NoResult
    /\ failure = NoFailure

NameAcmeTools == <<"A", "c", "m", "e", " ", "T", "o", "o", "l", "s">>

\* a directory with two stores that a name matches, and one of the
\* directories of the hard-coded name
PairDirectories ==
    { [IndividualCustomers |-> <<>>,
       StoreCustomers |-> << Store(21, NameAcme \o <<" ", "B", "i", "k", "e", "s">>),
                             Store(24, NameAcmeTools) >>,
       Customers |-> << Customer(2, NullId, 21, 6), Customer(7, NullId, 24, 3) >>],
      CHOOSE d \in StubDirectories : Len(d.Customers) = 1 }

\* the replies of the model to the invocations side by side
PairReplies ==
    { TextReply(ObjText(<< <<KeyHeader, ObjText(<< <<KeyCustomerID, <<"7">>>> >>)>>,
                           <<KeyCustomerName, Quoted(NameAcme)>> >>)),
      TextReply(ObjText(<< <<KeyCustomerName, Quoted(NameZed)>> >>)),
      TextReply(<<"{">>),
      APIErrorReply }

\* what one invocation is given: the function, the text of the document,
\* the reply of the model, and whether the directory answers (an empty text
\* reaches neither the model nor the directory)
RunInputs ==
    [entry : {"extract_invoice_data_from_text"}, text : {<<>>},
     reply : {NoReply}, session : {"ok"}]
    \cup [entry : {"extract_invoice_data_from_text"}, text : {<<"I", "N", "V">>},
          reply : PairReplies, session : {"ok", "raises"}]
    \cup [entry : {"extract_invoice_data_from_document"}, text : {<<"I", "N", "V">>},
          reply : {NoReply}, session : {"ok", "raises"}]

\* the locals of an invocation at its start
RunStart(in) ==
    [in |-> in, pc |-> "start", data |-> JNull, match |-> NotAttempted,
     result |-> NoResult, failure |-> NoFailure]

InitPair ==
    /\ NoInvocation
    /\ tables = NoTables
    /\ requests = <<>>
    /\ db \in PairDirectories
    /\ runs \in {[i \in RunIds |-> RunStart(f[i])] : f \in [RunIds -> RunInputs]}

\* the locals of invocation i become l
RunBecomes(i, l) ==
    /\ runs' = [runs EXCEPT ![i] = l]
    /\ UNCHANGED <<invocation, db, tables, requests>>

\* raise f in invocation i
RunRaises(i, f) ==
    RunBecomes(i, [runs[i] EXCEPT !.pc = "failed", !.result = NoResult, !.failure = f])

\* a module-level extracted_data: the one of the first invocation, once that
\* has assigned it
extracted_data_shared(i) ==
    IF runs[1].pc \in {"resolve", "done"} THEN runs[1].data ELSE runs[i].data

\* the local variable extracted_data of invocation i
extracted_data_of(i) == runs[i].data

\* the rows in an order that depends on the session
SessionRowsUnstable(d, i) ==
    IF i = 1 THEN d
    ELSE [d EXCEPT !.StoreCustomers =
             [k \in 1..Len(d.StoreCustomers) |->
                 d.StoreCustomers[Len(d.StoreCustomers) + 1 - k]]]

\* the tables as the session of invocation i enumerates them: in the order
\* in which they are stored
SessionRows(d, i) == d

\* the look-up is reached: "extracted_customer_name" in extracted_data, and
\* the name is truthy
OpensSession(data) ==
    /\ data.t = "obj"
    /\ KeyCustomerName \in DOMAIN data.m
    /\ Truthy(data.m[KeyCustomerName])

\* extract_invoice_data_from_text: the test of text_content
RunGuardText(i) ==
    /\ runs[i].pc = "start"
    /\ runs[i].in.entry = "extract_invoice_data_from_text"
    /\ IF NoTextContent(runs[i].in.text)
       THEN RunRaises(i, ValueError("No text content provided for extraction", "NoText", <<>>))
       ELSE RunBecomes(i, [runs[i] EXCEPT !.pc = "call_api"])

\* the outcome r of call_openai_api in invocation i
RunAfterCall(i, r) ==
    IF r.ok
    THEN RunBecomes(i, [runs[i] EXCEPT !.pc = "resolve", !.data = r.data])
    ELSE RunRaises(i, r.failure)

\* extracted_data = call_openai_api(text_content)
RunCallOpenAI(i) ==
    /\ runs[i].pc = "call_api"
    /\ RunAfterCall(i, ParseReply(runs[i].in.entry, runs[i].in.reply))

\* extract_invoice_data_from_document: the dict literal
RunHardCoded(i) ==
    /\ runs[i].pc = "start"
    /\ runs[i].in.entry = "extract_invoice_data_from_document"
    /\ RunBecomes(i, [runs[i] EXCEPT !.pc = "resolve", !.data = HardCodedData])

\* the outcome r of the merge in invocation i
RunAfterMerge(i, r) ==
    IF r.ok
    THEN RunBecomes(i, [runs[i] EXCEPT !.pc = "done", !.match = r.match,
                                       !.result = DataResult(r.data)])
    ELSE RunBecomes(i, [runs[i] EXCEPT !.pc = "failed", !.match = r.match,
                                       !.failure = r.failure])

\* the look-up in a session of its own, and what is made of it
RunResolve(i) ==
    /\ runs[i].pc = "resolve"
    /\ IF OpensSession(extracted_data_of(i)) /\ runs[i].in.session = "raises"
       THEN RunRaises(i, Uncaught("OperationalError", "session"))
       ELSE IF runs[i].in.entry = "extract_invoice_data_from_text"
       THEN RunAfterMerge(i, MergeCustomer(extracted_data_of(i), SessionRows(db, i)))
       ELSE RunBecomes(i, [runs[i] EXCEPT
                !.pc = "done",
                !.match = match_customer_to_database(
                              extracted_data_of(i).m[KeyCustomerName], SessionRows(db, i)),
                !.result = DataResult(AttachCustomer(extracted_data_of(i),
                              match_customer_to_database(
                                  extracted_data_of(i).m[KeyCustomerName],
                                  SessionRows(db, i))))])

NextPair ==
    \E i \in RunIds :
        \/ RunGuardText(i)
        \/ RunCallOpenAI(i)
        \/ RunHardCoded(i)
        \/ RunResolve(i)

SpecPair == InitPair /\ [][NextPair]_vars

-----------------------------------------------------------------------------
(* app.py: GET /sales_orders                                               *)

\* the orders in the store of the listing, at most
MaxOrders == 5

\* a 64-bit INTEGER of SQLite has at most this many decimal digits
IntegerDigits == 19

\* request.args: a parameter of the query string, not given or given with a text
NoArg == [given |-> FALSE, text |-> <<>>]

Arg(t) == [given |-> TRUE, text |-> t]

\* the text of an int() argument without its sign
IntBody(s) == IF s # <<>> /\ s[1] \in {"+", "-"} THEN Tail(s) ELSE s

\* digits, with single underscores between them
IsIntBody(b) ==
    /\ b # <<>>
    /\ b[1] \in Digits
    /\ b[Len(b)] \in Digits
    /\ \A k \in 1..Len(b) : b[k] \in Digits \cup {"_"}
    /\ \A k \in 1..(Len(b) - 1) : ~(b[k] = "_" /\ b[k + 1] = "_")

DigitsOf(b) == SelectSeq(b, LAMBDA c : c \in Digits)

\* int(s) of a text without whitespace around it: ok, or it raises
\* ValueError; a number of more digits than a 64-bit integer has is wide and
\* its value is not held (the requests hold no number in between)
IntOfStripped(s) ==
    [ok   |-> IsIntBody(IntBody(s)),
     neg  |-> s # <<>> /\ s[1] = "-",
     wide |-> Len(DigitsOf(IntBody(s))) > IntegerDigits,
     n    |-> IF ~IsIntBody(IntBody(s)) \/ Len(DigitsOf(IntBody(s))) > IntegerDigits THEN 0
              ELSE IF s[1] = "-" THEN 0 - DigitsValue(DigitsOf(IntBody(s)))
              ELSE DigitsValue(DigitsOf(IntBody(s)))]

\* int(request.args.get(name, default))
IntArg(a, default) ==
    IF a.given THEN IntOfStripped(Strip(a.text))
    ELSE [ok |-> TRUE, neg |-> FALSE, wide |-> FALSE, n |-> default]

\* v < k and v > k, for a small k
Below(v, k) == IF v.wide THEN v.neg ELSE v.n < k

Above(v, k) == IF v.wide THEN ~v.neg ELSE v.n > k

KeySalesOrderID == <<"S", "a", "l", "e", "s", "O", "r", "d", "e", "r", "I", "D">>

allowed_sort_fields ==
    { <<"S", "a", "l", "e", "s", "O", "r", "d", "e", "r", "I", "D">>,
      <<"R", "e", "v", "i", "s", "i", "o", "n", "N", "u", "m", "b", "e", "r">>,
      <<"O", "r", "d", "e", "r", "D", "a", "t", "e">>,
      <<"D", "u", "e", "D", "a", "t", "e">>,
      <<"S", "h", "i", "p", "D", "a", "t", "e">>,
      <<"S", "t", "a", "t", "u", "s">>,
      <<"O", "n", "l", "i", "n", "e", "O", "r", "d", "e", "r", "F", "l", "a", "g">>,
      <<"S", "a", "l", "e", "s", "O", "r", "d", "e", "r", "N", "u", "m", "b", "e", "r">>,
      <<"P", "u", "r", "c", "h", "a", "s", "e", "O", "r", "d", "e", "r", "N", "u", "m", "b", "e", "r">>,
      <<"A", "c", "c", "o", "u", "n", "t", "N", "u", "m", "b", "e", "r">>,
      <<"C", "u", "s", "t", "o", "m", "e", "r", "I", "D">>,
      <<"S", "a", "l", "e", "s", "P", "e", "r", "s", "o", "n", "I", "D">>,
      <<"T", "e", "r", "r", "i", "t", "o", "r", "y", "I", "D">>,
      <<"B", "i", "l", "l", "T", "o", "A", "d", "d", "r", "e", "s", "s", "I", "D">>,
      <<"S", "h", "i", "p", "T", "o", "A", "d", "d", "r", "e", "s", "s", "I", "D">>,
      <<"S", "h", "i", "p", "M", "e", "t", "h", "o", "d", "I", "D">>,
      <<"C", "r", "e", "d", "i", "t", "C", "a", "r", "d", "I", "D">>,
      <<"C", "r", "e", "d", "i", "t", "C", "a", "r", "d", "A", "p", "p", "r", "o", "v", "a", "l", "C", "o", "d", "e">>,
      <<"C", "u", "r", "r", "e", "n", "c", "y", "R", "a", "t", "e", "I", "D">>,
      <<"S", "u", "b", "T", "o", "t", "a", "l">>,
      <<"T", "a", "x", "A", "m", "t">>,
      <<"F", "r", "e", "i", "g", "h", "t">>,
      <<"T", "o", "t", "a", "l", "D", "u", "e">> }

\* request.args.get("sort_by", "SalesOrderID")
SortBy(a) == IF a.given THEN a.text ELSE KeySalesOrderID

\* request.args.get("order", "asc").lower()
SortOrder(a) == IF a.given THEN [k \in 1..Len(a.text) |-> Lower(a.text[k])] ELSE <<"a", "s", "c">>

\* getattr(SalesOrderHeader, sort_by) of a row; the stores of the listing
\* give values to SalesOrderID and CustomerID only
SortKey(h, sort_by) == IF sort_by = KeyCustomerID THEN h.CustomerID ELSE h.SalesOrderID

\* the place of row h under order_by(sort_column), the keys being distinct
Rank(h, headers, sort_by, order) ==
    1 + Cardinality({g \in headers :
            IF order = <<"d", "e", "s", "c">>
            THEN SortKey(g, sort_by) > SortKey(h, sort_by)
            ELSE SortKey(g, sort_by) < SortKey(h, sort_by)})

\* .order_by(sort_column).offset(offset).limit(per_page).all(), as the
\* SalesOrderID of each row
PageOfOrders(headers, sort_by, order, offset, limit) ==
    [k \in 1..(IF Cardinality(headers) - offset < 0 THEN 0
               ELSE IF Cardinality(headers) - offset < limit
               THEN Cardinality(headers) - offset ELSE limit) |->
        (CHOOSE h \in headers : Rank(h, headers, sort_by, order) = offset + k).SalesOrderID]

\* abort(code), or an exception that Flask answers with 500
ErrorResponse(code) ==
    [status |-> code, data |-> <<>>, page |-> 0, per_page |-> 0, total |-> 0,
     total_pages |-> 0, has_next |-> FALSE, has_prev |-> FALSE]

\* the body of the 200 response of get_sales_orders
Listing(headers, page, per_page, sort_by, order) ==
    [status      |-> 200,
     data        |-> PageOfOrders(headers, sort_by, order, (page - 1) * per_page, per_page),
     page        |-> page,
     per_page    |-> per_page,
     total       |-> Cardinality(headers),
     total_pages |-> IF Cardinality(headers) > 0
                     THEN (Cardinality(headers) + per_page - 1) \div per_page ELSE 0,
     has_next    |-> page < (IF Cardinality(headers) > 0
                             THEN (Cardinality(headers) + per_page - 1) \div per_page ELSE 0),
     has_prev    |-> page > 1]

\* get_sales_orders after the parsing of page and per_page; an offset that
\* does not fit a 64-bit integer cannot be bound to the query (OverflowError)
ListOrders(args, page, per_page, headers) ==
    IF ~page.ok \/ ~per_page.ok THEN ErrorResponse(400)
    ELSE IF Below(page, 1) THEN ErrorResponse(400)
    ELSE IF Below(per_page, 1) THEN ErrorResponse(400)
    ELSE IF Above(per_page, 100) THEN ErrorResponse(400)
    ELSE IF SortBy(args.sort_by) \notin allowed_sort_fields THEN ErrorResponse(400)
    ELSE IF SortOrder(args.order) \notin {<<"a", "s", "c">>, <<"d", "e", "s", "c">>}
    THEN ErrorResponse(400)
    ELSE IF page.wide THEN ErrorResponse(500)
    ELSE Listing(headers, page.n, per_page.n, SortBy(args.sort_by), SortOrder(args.order))

\* a row of SalesOrderHeader, with an OrderDate or None
Header(id, customer, revision, date) ==
    [SalesOrderID |-> id, CustomerID |-> customer, RevisionNumber |-> revision,
     OrderDate |-> date]

NoDate == <<>>

\* the stores of the listing: T orders, with CustomerIDs in the opposite order
ListedStores ==
    { [headers |-> {Header(k, MaxOrders + 2 - k, 0, NoDate) : k \in 1..t}, details |-> {}] :
        t \in 0..MaxOrders }

\* the texts given for page and per_page: integers around the limits, with
\* whitespace, no integers, and an integer of twenty digits
PageArgs ==
    { NoArg, Arg(<<"1">>), Arg(<<"2">>), Arg(<<"3">>), Arg(<<"0">>), Arg(<<"-", "1">>),
      Arg(<<" ", "2", " ">>), Arg(<<"a", "b", "c">>), Arg(<<>>), Arg(<<"1", ".", "5">>),
      Arg(Rep("9", 20)) }

PerPageArgs ==
    { NoArg, Arg(<<"1">>), Arg(<<"2">>), Arg(<<"3">>), Arg(<<"1", "0", "0">>),
      Arg(<<"1", "0", "1">>), Arg(<<"0">>), Arg(<<"x">>) }

SortByArgs == { NoArg, Arg(KeyCustomerID), Arg(<<"f", "o", "o">>), Arg(<<"s", "a", "l", "e", "s", "o", "r", "d", "e", "r", "i", "d">>) }

OrderArgs == { NoArg, Arg(<<"a", "s", "c">>), Arg(<<"D", "E", "S", "C">>), Arg(<<"u", "p">>) }

\* one request to GET /sales_orders, received
InitList ==
    /\ NoInvocation
    /\ db = SomeDirectory
    /\ runs = <<>>
    /\ tables \in ListedStores
    /\ requests \in { << [op |-> "GET /sales_orders", pc |-> "received", args |-> a,
                          response |-> ErrorResponse(0)] >> :
                      a \in [page : PageArgs, per_page : PerPageArgs,
                             sort_by : SortByArgs, order : OrderArgs] }

\* get_sales_orders
GetSalesOrders ==
    /\ requests[1].pc = "received"
    /\ requests' = [requests EXCEPT
                       ![1].pc = "responded",
                       ![1].response = ListOrders(requests[1].args,
                                                  IntArg(requests[1].args.page, 1),
                                                  IntArg(requests[1].args.per_page, 10),
                                                  tables.headers)]
    /\ UNCHANGED <<invocation, db, runs, tables>>

NextList == GetSalesOrders

SpecList == InitList /\ [][NextList]_vars

-----------------------------------------------------------------------------
(* app.py: POST, PUT and DELETE on /sales_orders and /sales_order_details, *)
(* each request in a session of its own (db.py: get_db_session)            *)

\* the requests in flight
MaxRequests == 2

RequestIds == 1..MaxRequests

KeyRevisionNumber == <<"R", "e", "v", "i", "s", "i", "o", "n", "N", "u", "m", "b", "e", "r">>

KeyOrderDate == <<"O", "r", "d", "e", "r", "D", "a", "t", "e">>

KeyProductID == <<"P", "r", "o", "d", "u", "c", "t", "I", "D">>

KeySalesOrderDetailID == <<"S", "a", "l", "e", "s", "O", "r", "d", "e", "r", "D", "e", "t", "a", "i", "l", "I", "D">>

\* a row of SalesOrderDetail
Detail(id, order, product) ==
    [SalesOrderDetailID |-> id, SalesOrderID |-> order, ProductID |-> product]

\* value.replace("Z", "+00:00")
RECURSIVE ReplaceZ(_)
ReplaceZ(s) ==
    IF s = <<>> THEN <<>>
    ELSE IF Head(s) = "Z" THEN <<"+", "0", "0", ":", "0", "0">> \o ReplaceZ(Tail(s))
    ELSE <<Head(s)>> \o ReplaceZ(Tail(s))

\* two digits at i that make a number from lo to hi
TwoDigits(s, i, lo, hi) ==
    /\ s[i] \in Digits
    /\ s[i + 1] \in Digits
    /\ 10 * DigitVal(s[i]) + DigitVal(s[i + 1]) \in lo..hi

\* YYYY-MM-DD at the start of s
IsIsoDate(s) ==
    /\ \A k \in 1..4 : s[k] \in Digits
    /\ s[5] = "-"
    /\ TwoDigits(s, 6, 1, 12)
    /\ s[8] = "-"
    /\ TwoDigits(s, 9, 1, 31)

\* HH:MM:SS at i
IsIsoTime(s, i) ==
    /\ TwoDigits(s, i, 0, 23)
    /\ s[i + 2] = ":"
    /\ TwoDigits(s, i + 3, 0, 59)
    /\ s[i + 5] = ":"
    /\ TwoDigits(s, i + 6, 0, 59)

\* +HH:MM or -HH:MM at i
IsIsoOffset(s, i) ==
    /\ s[i] \in {"+", "-"}
    /\ TwoDigits(s, i + 1, 0, 23)
    /\ s[i + 3] = ":"
    /\ TwoDigits(s, i + 4, 0, 59)

\* datetime.fromisoformat(s) does not raise: a date, a date and a time
\* after one separating character, or these with an offset (the forms
\* YYYY-MM-DD[*HH:MM:SS[+HH:MM]]; the requests hold no other form)
IsIsoFormat(s) ==
    \/ Len(s) = 10 /\ IsIsoDate(s)
    \/ Len(s) = 19 /\ IsIsoDate(s) /\ IsIsoTime(s, 12)
    \/ Len(s) = 25 /\ IsIsoDate(s) /\ IsIsoTime(s, 12) /\ IsIsoOffset(s, 20)

\* the date field of the body is a str that fromisoformat rejects: abort(400)
DateFails(body) ==
    /\ KeyOrderDate \in DOMAIN body.m
    /\ body.m[KeyOrderDate].t = "str"
    /\ ~IsIsoFormat(ReplaceZ(body.m[KeyOrderDate].s))

\* the value assigned for a field of the body: a str of a date field parsed
AssignedValue(field, value) ==
    IF field = KeyOrderDate /\ value.t = "str" THEN JStr(ReplaceZ(value.s)) ELSE value

\* the setattr calls of the loop up to its end, or up to the date field
\* that aborts it: the fields of the list that come before OrderDate
AssignedFields(body, fields) ==
    [k \in (DOMAIN body.m) \cap (IF DateFails(body) THEN {KeyRevisionNumber} ELSE fields) |->
        AssignedValue(k, body.m[k])]

\* the fields of the loop of update_sales_order and of create_sales_order
editable_fields == {KeyRevisionNumber, KeyOrderDate, KeyCustomerID}

optional_fields == {KeyRevisionNumber, KeyOrderDate}

\* the column of a row after the assignments: an integer column
IntColumn(assigned, key, old) == IF key \in DOMAIN assigned THEN assigned[key].n ELSE old

\* the column OrderDate after the assignments: None, or the datetime
DateColumn(assigned, old) ==
    IF KeyOrderDate \notin DOMAIN assigned THEN old
    ELSE IF assigned[KeyOrderDate].t = "str" THEN assigned[KeyOrderDate].s
    ELSE NoDate

\* the order object after the assignments
AssignedHeader(h, assigned) ==
    Header(h.SalesOrderID,
           IntColumn(assigned, KeyCustomerID, h.CustomerID),
           IntColumn(assigned, KeyRevisionNumber, h.RevisionNumber),
           DateColumn(assigned, h.OrderDate))

\* an autoincremented primary key
NextId(ids) == IF ids = {} THEN 1 ELSE 1 + CHOOSE m \in ids : \A k \in ids : k <= m

HeaderIdsOf(t) == {h.SalesOrderID : h \in t.headers}

DetailIdsOf(t) == {d.SalesOrderDetailID : d \in t.details}

\* what a session has to write at its commit
NoWrite == [kind |-> "none", id |-> 0, assigned |-> <<>>]

Write(kind, id, assigned) == [kind |-> kind, id |-> id, assigned |-> assigned]

\* the flush raises: a primary key that exists (IntegrityError), an UPDATE
\* that matches no row (StaleDataError), a DateTime column given a number
FlushRaises(w, t) ==
    \/ w.kind = "insert_header" /\ w.id \in HeaderIdsOf(t)
    \/ w.kind = "insert_detail" /\ w.id \in DetailIdsOf(t)
    \/ w.kind = "update_header" /\ w.id \notin HeaderIdsOf(t)
    \/ w.kind = "update_detail" /\ w.id \notin DetailIdsOf(t)
    \/ /\ w.kind \in {"insert_header", "update_header"}
       /\ KeyOrderDate \in DOMAIN w.assigned
       /\ w.assigned[KeyOrderDate].t = "num"

\* the primary key of the row an INSERT adds
InsertedId(w, ids) == IF w.id = 0 THEN NextId(ids) ELSE w.id

\* the statements of the flush, on the tables as they are at the commit
Flush(w, t) ==
    CASE w.kind = "insert_header" ->
            [t EXCEPT !.headers = @ \cup
                {AssignedHeader(Header(InsertedId(w, HeaderIdsOf(t)), 0, 0, NoDate), w.assigned)}]
      [] w.kind = "update_header" ->
            [t EXCEPT !.headers =
                {IF h.SalesOrderID = w.id THEN AssignedHeader(h, w.assigned) ELSE h : h \in @}]
      [] w.kind = "delete_order" ->
            [headers |-> {h \in t.headers : h.SalesOrderID # w.id},
             details |-> {d \in t.details : d.SalesOrderID # w.id}]
      [] w.kind = "insert_detail" ->
            [t EXCEPT !.details = @ \cup
                {Detail(InsertedId(w, DetailIdsOf(t)), w.assigned[KeySalesOrderID].n,
                        w.assigned[KeyProductID].n)}]
      [] w.kind = "update_detail" ->
            [t EXCEPT !.details =
                {IF d.SalesOrderDetailID = w.id
                 THEN Detail(d.SalesOrderDetailID, d.SalesOrderID,
                             IntColumn(w.assigned, KeyProductID, d.ProductID))
                 ELSE d : d \in @}]
      [] w.kind = "delete_detail" ->
            [t EXCEPT !.details = {d \in @ : d.SalesOrderDetailID # w.id}]
      [] OTHER -> t

\* the writes of the session reach the tables although the handler aborted
CommitOnAbort(t, w) == IF FlushRaises(w, t) THEN t ELSE Flush(w, t)

\* get_db_session, except Exception: session.rollback(); the changes of the
\* session are dropped
Rollback(t, w) == t

\* a request body that is no JSON
NoJson == [t |-> "none", n |-> 0, s |-> <<>>, m |-> <<>>]

\* a request as it is received
Request(op, id, body) ==
    [op |-> op, id |-> id, body |-> body, pc |-> "received", status |-> 0, write |-> NoWrite]

\* abort(code), and a response after the commit or the rollback
Responded(req, code) == [req EXCEPT !.pc = "responded", !.status = code, !.write = NoWrite]

\* the handler returns code inside the with block: the commit is to come
Returns(req, code, w) == [req EXCEPT !.pc = "pending", !.status = code, !.write = w]

\* request i becomes req, the tables become t
Serve(i, req, t) ==
    /\ requests' = [requests EXCEPT ![i] = req]
    /\ tables' = t
    /\ UNCHANGED <<invocation, db, runs>>

\* the body has the key
Has(body, key) == key \in DOMAIN body.m

\* create_sales_order: the checks of the body, the order object and the
\* loop over optional_fields; session.add and session.flush after the loop
CreateSalesOrder(i) ==
    /\ requests[i].pc = "received"
    /\ requests[i].op = "POST /sales_orders"
    /\ IF requests[i].body = NoJson
          \/ ~Has(requests[i].body, KeyCustomerID) \/ ~Has(requests[i].body, KeyTerritoryID)
       THEN Serve(i, Responded(requests[i], 400), tables)
       ELSE IF DateFails(requests[i].body)
       THEN Serve(i, Responded(requests[i], 400), Rollback(tables, NoWrite))
       ELSE Serve(i, Returns(requests[i], 201,
                             Write("insert_header",
                                   IF Has(requests[i].body, KeySalesOrderID)
                                   THEN requests[i].body.m[KeySalesOrderID].n ELSE 0,
                                   AssignedFields(requests[i].body,
                                                  optional_fields \cup {KeyCustomerID}))),
                  tables)

\* update_sales_order: the checks of the body, the query of the order, the
\* loop over editable_fields on the order object
UpdateSalesOrder(i) ==
    /\ requests[i].pc = "received"
    /\ requests[i].op = "PUT /sales_orders"
    /\ IF requests[i].body = NoJson
          \/ ( /\ Has(requests[i].body, KeySalesOrderID)
               /\ requests[i].body.m[KeySalesOrderID] # JNum(requests[i].id) )
       THEN Serve(i, Responded(requests[i], 400), tables)
       ELSE IF requests[i].id \notin HeaderIdsOf(tables)
       THEN Serve(i, Responded(requests[i], 404), Rollback(tables, NoWrite))
       ELSE IF DateFails(requests[i].body)
       THEN Serve(i, Responded(requests[i], 400),
                  Rollback(tables, Write("update_header", requests[i].id,
                                         AssignedFields(requests[i].body, editable_fields))))
       ELSE Serve(i, Returns(requests[i], 200,
                             Write("update_header", requests[i].id,
                                   AssignedFields(requests[i].body, editable_fields))),
                  tables)

\* delete_sales_order: the query of the order; the DELETE of its details
\* and session.delete(order) take the write lock up to the commit
DeleteSalesOrder(i) ==
    /\ requests[i].pc = "received"
    /\ requests[i].op = "DELETE /sales_orders"
    /\ IF requests[i].id \notin HeaderIdsOf(tables)
       THEN Serve(i, Responded(requests[i], 404), Rollback(tables, NoWrite))
       ELSE Serve(i, Returns(requests[i], 204, Write("delete_order", requests[i].id, <<>>)),
                  tables)

\* create_sales_order_detail: the checks of the body, the query of the
\* order, the detail object; session.add and session.flush come after
CreateSalesOrderDetail(i) ==
    /\ requests[i].pc = "received"
    /\ requests[i].op = "POST /sales_order_details"
    /\ IF requests[i].body = NoJson
          \/ ~Has(requests[i].body, KeySalesOrderID) \/ ~Has(requests[i].body, KeyProductID)
       THEN Serve(i, Responded(requests[i], 400), tables)
       ELSE IF requests[i].body.m[KeySalesOrderID].n \notin HeaderIdsOf(tables)
       THEN Serve(i, Responded(requests[i], 404), Rollback(tables, NoWrite))
       ELSE Serve(i, Returns(requests[i], 201,
                             Write("insert_detail",
                                   IF Has(requests[i].body, KeySalesOrderDetailID)
                                   THEN requests[i].body.m[KeySalesOrderDetailID].n ELSE 0,
                                   requests[i].body.m)),
                  tables)

\* update_sales_order_detail
UpdateSalesOrderDetail(i) ==
    /\ requests[i].pc = "received"
    /\ requests[i].op = "PUT /sales_order_details"
    /\ IF requests[i].body = NoJson
          \/ ( /\ Has(requests[i].body, KeySalesOrderDetailID)
               /\ requests[i].body.m[KeySalesOrderDetailID] # JNum(requests[i].id) )
       THEN Serve(i, Responded(requests[i], 400), tables)
       ELSE IF requests[i].id \notin DetailIdsOf(tables)
       THEN Serve(i, Responded(requests[i], 404), Rollback(tables, NoWrite))
       ELSE Serve(i, Returns(requests[i], 200,
                             Write("update_detail", requests[i].id,
                                   [k \in (DOMAIN requests[i].body.m) \cap {KeyProductID} |->
                                       requests[i].body.m[k]])),
                  tables)

\* delete_sales_order_detail
DeleteSalesOrderDetail(i) ==
    /\ requests[i].pc = "received"
    /\ requests[i].op = "DELETE /sales_order_details"
    /\ IF requests[i].id \notin DetailIdsOf(tables)
       THEN Serve(i, Responded(requests[i], 404), Rollback(tables, NoWrite))
       ELSE Serve(i, Returns(requests[i], 204, Write("delete_detail", requests[i].id, <<>>)),
                  tables)

\* get_db_session after the yield: session.commit() flushes the session and
\* makes its writes visible, or the flush raises, the session is rolled back
\* and Flask answers 500
Commit(i) ==
    /\ requests[i].pc = "pending"
    /\ IF FlushRaises(requests[i].write, tables)
       THEN Serve(i, Responded(requests[i], 500), Rollback(tables, requests[i].write))
       ELSE Serve(i, Responded(requests[i], requests[i].status),
                  Flush(requests[i].write, tables))

\* the dates given: ISO with and without a time and a Z, a month 13, another
\* notation
DateTexts ==
    { <<"2", "0", "2", "5", "-", "0", "6", "-", "0", "4">>,
      <<"2", "0", "2", "5", "-", "0", "6", "-", "0", "4", "T", "1", "0", ":", "0", "0", ":", "0", "0", "Z">>,
      <<"2", "0", "2", "5", "-", "1", "3", "-", "0", "1">>,
      <<"0", "4", "/", "0", "6", "/", "2", "0", "2", "5">> }

\* the bodies of POST /sales_orders
OrderBodies ==
    { NoJson,
      Dict(<< <<KeyCustomerID, JNum(1)>> >>),
      Dict(<< <<KeyCustomerID, JNum(1)>>, <<KeyTerritoryID, JNum(1)>> >>),
      Dict(<< <<KeySalesOrderID, JNum(1)>>, <<KeyCustomerID, JNum(1)>>,
              <<KeyTerritoryID, JNum(1)>> >>) }
    \cup { Dict(<< <<KeyCustomerID, JNum(1)>>, <<KeyTerritoryID, JNum(1)>>,
                   <<KeyRevisionNumber, JNum(3)>>, <<KeyOrderDate, JStr(d)>> >>) :
           d \in DateTexts }

\* the bodies of PUT /sales_orders/<id>
OrderUpdates ==
    { NoJson,
      Dict(<< <<KeySalesOrderID, JNum(9)>>, <<KeyRevisionNumber, JNum(3)>> >>),
      Dict(<< <<KeySalesOrderID, JNum(1)>>, <<KeyCustomerID, JNum(2)>> >>),
      Dict(<< <<KeyOrderDate, JNull>> >>),
      Dict(<< <<KeyOrderDate, JNum(5)>> >>) }
    \cup { Dict(<< <<KeyRevisionNumber, JNum(3)>>, <<KeyOrderDate, JStr(d)>> >>) :
           d \in DateTexts }

\* the bodies of POST /sales_order_details
DetailBodies ==
    { Dict(<< <<KeyProductID, JNum(7)>> >>),
      Dict(<< <<KeySalesOrderID, JNum(1)>>, <<KeyProductID, JNum(7)>> >>),
      Dict(<< <<KeySalesOrderID, JNum(2)>>, <<KeyProductID, JNum(7)>> >>),
      Dict(<< <<KeySalesOrderID, JNum(1)>>, <<KeyProductID, JNum(7)>>,
              <<KeySalesOrderDetailID, JNum(1)>> >>) }

\* the bodies of PUT /sales_order_details/<id>
DetailUpdates ==
    { Dict(<< <<KeyProductID, JNum(8)>> >>),
      Dict(<< <<KeySalesOrderDetailID, JNum(9)>> >>) }

\* the requests
Requests ==
    { Request("POST /sales_orders", 0, b) : b \in OrderBodies }
    \cup { Request("PUT /sales_orders", 1, b) : b \in OrderUpdates }
    \cup { Request("PUT /sales_orders", 2, b) : b \in {Dict(<< <<KeyRevisionNumber, JNum(3)>> >>)} }
    \cup { Request("DELETE /sales_orders", id, NoJson) : id \in {1, 2} }
    \cup { Request("POST /sales_order_details", 0, b) : b \in DetailBodies }
    \cup { Request("PUT /sales_order_details", id, b) : id \in {1, 2}, b \in DetailUpdates }
    \cup { Request("DELETE /sales_order_details", id, NoJson) : id \in {1, 2} }

\* a store in which every detail has its order
InitialTables ==
    [headers |-> {Header(1, 1, 0, NoDate)}, details |-> {Detail(1, 1, 7)}]

InitOrders ==
    /\ NoInvocation
    /\ db = SomeDirectory
    /\ runs = <<>>
    /\ tables = InitialTables
    /\ requests \in [RequestIds -> Requests]

NextOrders ==
    \E i \in RequestIds :
        \/ CreateSalesOrder(i)
        \/ UpdateSalesOrder(i)
        \/ DeleteSalesOrder(i)
        \/ CreateSalesOrderDetail(i)
        \/ UpdateSalesOrderDetail(i)
        \/ DeleteSalesOrderDetail(i)
        \/ Commit(i)

SpecOrders == InitOrders /\ [][NextOrders]_vars

-----------------------------------------------------------------------------
(* Reference definitions of the properties.  They are written from the     *)
(* meaning of the words (trimmed, joined, prefix), by counting, and use    *)
(* none of the operators above that model the code.                        *)

\* the number of leading whitespace characters of t
LeadingWS(t) == Cardinality({k \in 1..Len(t) : \A j \in 1..k : t[j] \in WS})

\* the number of trailing whitespace characters of t
TrailingWS(t) == Cardinality({k \in 1..Len(t) : \A j \in k..Len(t) : t[j] \in WS})

\* t is empty or all whitespace
AllWS(t) == LeadingWS(t) = Len(t)

\* t without its leading and trailing whitespace
Trimmed(t) ==
    IF AllWS(t) THEN <<>> ELSE SubSeq(t, LeadingWS(t) + 1, Len(t) - TrailingWS(t))

RECURSIVE TrimmedTotal(_)
\* the lengths of the trimmed page texts, added up
TrimmedTotal(ps) ==
    IF ps = <<>> THEN 0
    ELSE TrimmedTotal(SubSeq(ps, 1, Len(ps) - 1))
         + (IF AllWS(ps[Len(ps)]) THEN 0
            ELSE Len(ps[Len(ps)]) - LeadingWS(ps[Len(ps)]) - TrailingWS(ps[Len(ps)]))

RECURSIVE NonWhitespaceTotal(_)
\* the number of characters of the page texts that are not whitespace
NonWhitespaceTotal(ps) ==
    IF ps = <<>> THEN 0
    ELSE NonWhitespaceTotal(SubSeq(ps, 1, Len(ps) - 1))
         + Cardinality({j \in 1..Len(ps[Len(ps)]) : ps[Len(ps)][j] \notin WS})

RECURSIVE TextLayer(_)
\* the texts of the pages that have any, in page order, a newline between
\* one and the next
TextLayer(ps) ==
    IF ps = <<>> THEN <<>>
    ELSE IF AllWS(ps[1]) THEN TextLayer(Tail(ps))
    ELSE IF \A k \in 2..Len(ps) : AllWS(ps[k]) THEN ps[1]
    ELSE ps[1] \o <<"\n">> \o TextLayer(Tail(ps))

RECURSIVE JoinedInOrder(_)
\* the parts in order, a single newline between one and the next
JoinedInOrder(parts) ==
    IF parts = <<>> THEN <<>>
    ELSE IF Len(parts) = 1 THEN parts[1]
    ELSE JoinedInOrder(SubSeq(parts, 1, Len(parts) - 1)) \o <<"\n">> \o parts[Len(parts)]

\* p is a prefix of t
HasPrefix(t, p) == Len(p) <= Len(t) /\ \A k \in 1..Len(p) : t[k] = p[k]

\* p is a suffix of t
HasSuffix(t, p) == Len(p) <= Len(t) /\ \A k \in 1..Len(p) : t[Len(t) - Len(p) + k] = p[k]

\* p occurs in t as a run of consecutive characters
OccursIn(t, p) ==
    \E k \in 0..(Len(t) - Len(p)) : \A j \in 1..Len(p) : t[k + j] = p[j]

\* a PDF function of the vision path has read the text layer and decided
Tier1Decided ==
    /\ entry \in PdfGptEntries
    /\ pc # "start"
    /\ failure.cause # "PdfReader"

\* the calls so far that are not structured-extraction calls with a text
RecoveryCalls == SelectSeq(calls, LAMBDA c : c.api # "extract" \/ c.page # 0)

\* the vision calls so far
VisionCalls == SelectSeq(calls, LAMBDA c : c.api = "vision")

\* the clean-up ran on the reply: there is a reply text, and the call did
\* not stop at the empty test
Sanitized == raw.kind = "text" /\ failure.cause # "EmptyResponse"

-----------------------------------------------------------------------------
(* C1                                                                      *)

\* C1, as stated: once the text layer is read, Tier 1 is accepted exactly
\* when the page texts hold more than 100 characters that are not whitespace.
C1_AcceptedIffNonWhitespaceAboveThreshold ==
    Tier1Decided => (tier = "Tier-1" <=> NonWhitespaceTotal(pages) > TextThreshold)

\* C1, amended: once the text layer is read, Tier 1 is accepted exactly when
\* the lengths of the trimmed page texts (interior whitespace counted) add up
\* to more than 100; a total of exactly 100 is not accepted.
C1_AcceptedIffTrimmedAboveThreshold ==
    Tier1Decided => (tier = "Tier-1" <=> TrimmedTotal(pages) > TextThreshold)

\* C1: a PDF is accepted whose page texts hold at most 100 characters that
\* are not whitespace, the interior whitespace making up the difference
C1_Witness ==
    /\ Tier1Decided
    /\ tier = "Tier-1"
    /\ NonWhitespaceTotal(pages) <= TextThreshold
    /\ TrimmedTotal(pages) > TextThreshold

-----------------------------------------------------------------------------
(* C2                                                                      *)

\* C2: an invocation whose Tier-1 text is accepted never attempts the
\* rasterization and makes no rasterization call and no vision call;
\* extract_text_from_pdf_gpt returns the texts of the pages that have text,
\* joined by newlines, and extract_data_from_pdf_gpt sends exactly that text
\* to the structured extraction, in one call at most.
C2_AcceptedReturnsTextLayerWithoutRaster ==
    (Tier1Decided /\ TrimmedTotal(pages) > TextThreshold) =>
        /\ raster = "not_attempted"
        /\ images = 0
        /\ RecoveryCalls = <<>>
        /\ IF entry = "extract_text_from_pdf_gpt"
           THEN /\ pc = "done"
                /\ result = TextResult(TextLayer(pages))
                /\ calls = <<>>
           ELSE /\ text_content = TextLayer(pages)
                /\ Len(calls) <= 1
                /\ \A k \in 1..Len(calls) : calls[k] = Call("extract", 0, TextLayer(pages))

\* C2: an accepted PDF of two pages, one of them blank, has gone through
\* the structured extraction
C2_Witness ==
    /\ entry = "extract_data_from_pdf_gpt"
    /\ TrimmedTotal(pages) > TextThreshold
    /\ Len(pages) = 2
    /\ \E k \in 1..2 : pages[k] # <<>> /\ AllWS(pages[k])
    /\ pc = "done"
    /\ Len(calls) = 1

-----------------------------------------------------------------------------
(* C3                                                                      *)

\* C3, as stated: in every PDF recovery function, the local one included, a
\* text is returned for a PDF of at most 100 characters of text layer only
\* after the rasterization was attempted.
C3_EveryPathRasterizesBelowThreshold ==
    ( /\ entry \in PdfGptEntries \cup {"extract_text_from_pdf"}
      /\ TrimmedTotal(pages) <= TextThreshold
      /\ result.kind = "text" ) => raster # "not_attempted"

\* C3, amended: in the PDF functions of the vision path, for a PDF whose
\* trimmed page texts add up to at most 100, the rasterization is attempted
\* before any text is returned and before any call is made, and the first
\* call is the rasterization unless its import failed; the local function
\* extract_text_from_pdf never attempts it.
C3_VisionPathRasterizesBelowThreshold ==
    /\ ( /\ entry \in PdfGptEntries
         /\ TrimmedTotal(pages) <= TextThreshold
         /\ (result.kind # "none" \/ calls # <<>>) ) =>
            /\ raster # "not_attempted"
            /\ raster = "import_error" \/ (calls # <<>> /\ calls[1].api = "rasterize")
    /\ entry = "extract_text_from_pdf" => (raster = "not_attempted" /\ calls = <<>>)

\* C3: a PDF with some text, not more than 100 characters, is returned from
\* the vision calls after the rasterization
C3_Witness ==
    /\ entry = "extract_text_from_pdf_gpt"
    /\ TrimmedTotal(pages) \in 1..TextThreshold
    /\ raster = "ok"
    /\ pc = "done"
    /\ result.kind = "text"

-----------------------------------------------------------------------------
(* C4                                                                      *)

-----------------------------------------------------------------------------
(* C5                                                                      *)

\* C5, as stated: no recovery function returns an empty or all-whitespace
\* text as a success.
C5_RecoveryNeverReturnsBlank ==
    result.kind = "text" => ~AllWS(result.text)

\* C5, amended: extract_invoice_data_from_text rejects an empty or
\* all-whitespace text with a ValueError before any model call, and neither
\* it nor extract_data_from_pdf_gpt ever sends an empty or all-whitespace
\* text to the structured extraction.
C5_BlankTextRejectedBeforeModelCall ==
    /\ ( /\ entry = "extract_invoice_data_from_text"
         /\ pc # "start"
         /\ AllWS(text_content) ) =>
            /\ pc = "failed"
            /\ failure.exc = "ValueError"
            /\ failure.cause = "NoText"
            /\ calls = <<>>
            /\ raw = NoReply
    /\ entry \in {"extract_invoice_data_from_text", "extract_data_from_pdf_gpt"} =>
          \A k \in 1..Len(calls) :
              (calls[k].api = "extract" /\ calls[k].page = 0) => ~AllWS(calls[k].text)

\* C5: a text of whitespace only has been rejected
C5_Witness ==
    /\ entry = "extract_invoice_data_from_text"
    /\ text_content # <<>>
    /\ AllWS(text_content)
    /\ pc = "failed"

-----------------------------------------------------------------------------
(* C6                                                                      *)

\* C6: in extract_text_from_pdf_gpt the vision calls follow the
\* rasterization, one for each page in the order 1, 2, ..., with no other
\* call between them; when Tier 2 returns, there is one for each of the N
\* page images and the text returned is the N trimmed replies, in page order,
\* with a single newline between one and the next.
C6_OneVisionCallPerPageInOrder ==
    entry = "extract_text_from_pdf_gpt" =>
        /\ Len(VisionCalls) <= images
        /\ \A k \in 1..Len(VisionCalls) : VisionCalls[k].page = k
        /\ VisionCalls # <<>> =>
              (calls[1].api = "rasterize" /\ Len(calls) = Len(VisionCalls) + 1)
        /\ tier = "Tier-2" =>
              /\ pc = "done"
              /\ Len(VisionCalls) = images
              /\ result = TextResult(JoinedInOrder(
                              [k \in 1..images |-> Trimmed(VisionCalls[k].text)]))

\* C6: two pages recovered by two vision calls with different replies
C6_Witness ==
    /\ entry = "extract_text_from_pdf_gpt"
    /\ tier = "Tier-2"
    /\ images = 2
    /\ result.text = <<"a", "\n", "b">>

-----------------------------------------------------------------------------
(* C7                                                                      *)

\* the leading marker of C7: the fence with the tag json, or else the fence
LeadingMarkerRemoved(t) ==
    IF HasPrefix(t, FenceJson) THEN SubSeq(t, Len(FenceJson) + 1, Len(t))
    ELSE IF HasPrefix(t, Fence) THEN SubSeq(t, Len(Fence) + 1, Len(t))
    ELSE t

TrailingMarkerRemoved(t) ==
    IF HasSuffix(t, Fence) THEN SubSeq(t, 1, Len(t) - Len(Fence)) ELSE t

\* C7, as stated: the cleaned text is the trimmed reply without one leading
\* marker, if it has one, and without one trailing marker, if it has one
\* (and trimmed again); nothing else is removed.
C7_AtMostOneMarkerEachSide ==
    Sanitized =>
        cleaned = Trimmed(TrailingMarkerRemoved(LeadingMarkerRemoved(Trimmed(raw.text))))

-----------------------------------------------------------------------------
(* C8                                                                      *)

\* payloads and the values they denote
FencedCases ==
    { << <<"{", "}">>, JObj(<<>>) >>,
      << <<"[", "1", "]">>, JArr(<<JNum(1)>>) >>,
      << NullText, JNull >> }

\* the reply: fence, tag, newline, payload, newline, fence
FencedReply(tag, payload) ==
    Fence \o tag \o <<"\n">> \o payload \o <<"\n">> \o Fence

\* for the tags given: the fenced reply is cleaned to the payload, parses,
\* and parses to the value of the payload
FencedParsesAsPayload(tags) ==
    \A tag \in tags :
        /\ \A p \in ValidPayloads \cup ObjectPayloads :
              raw = TextReply(FencedReply(tag, p)) =>
                  (cleaned = p /\ failure.cause # "JSONDecodeError")
        /\ \A c \in FencedCases :
              raw = TextReply(FencedReply(tag, c[1])) => extracted_data = c[2]

\* C8, as stated: with any language tag, the empty tag and tags other than
\* json included, the fenced reply is cleaned to the payload and parses to
\* the value of the payload.
C8_AnyTagParsesAsPayload ==
    FencedParsesAsPayload({ <<>>, <<"j", "s", "o", "n">>, <<"p", "y">>,
                            <<"J", "S", "O", "N">> })

\* C8, amended: with the empty tag or the tag json in lower case, the fenced
\* reply is cleaned to the payload and parses to the value of the payload.
C8_JsonOrNoTagParsesAsPayload ==
    FencedParsesAsPayload({ <<>>, <<"j", "s", "o", "n">> })

\* C8: a reply fenced with the tag json has been parsed to its payload
C8_Witness ==
    /\ raw = TextReply(FencedReply(<<"j", "s", "o", "n">>, <<"[", "1", "]">>))
    /\ extracted_data = JArr(<<JNum(1)>>)
    /\ pc = "done"

-----------------------------------------------------------------------------
(* C9                                                                      *)

\* C9, as stated: the diagnostic text of a parse failure is a prefix of the
\* reply as received, of at most 500 characters.
C9_DiagnosticIsPrefixOfRawReply ==
    failure.cause = "JSONDecodeError" =>
        (HasPrefix(raw.text, failure.diag) /\ Len(failure.diag) <= DiagLimit)

\* C9, amended: in the OpenAI functions the diagnostic text of a parse
\* failure is the first 500 characters of the cleaned reply (all of it if
\* shorter), which is a section of the reply as received and a prefix of it
\* when the reply starts with neither whitespace nor a fence; the failure of
\* call_anthropic_api carries no text of the reply.
C9_DiagnosticIsPrefixOfCleanedReply ==
    failure.cause = "JSONDecodeError" =>
        IF entry = "call_anthropic_api"
        THEN failure.diag = <<>>
        ELSE /\ Len(failure.diag) = (IF Len(cleaned) < 500 THEN Len(cleaned) ELSE 500)
             /\ HasPrefix(cleaned, failure.diag)
             /\ OccursIn(raw.text, cleaned)
             /\ (LeadingWS(raw.text) = 0 /\ ~HasPrefix(raw.text, Fence)) =>
                   HasPrefix(raw.text, failure.diag)

\* C9: a diagnostic of 500 characters that is no prefix of the reply received
C9_Witness ==
    /\ entry = "extract_invoice_data_from_text"
    /\ failure.cause = "JSONDecodeError"
    /\ Len(failure.diag) = 500
    /\ Len(cleaned) > 500
    /\ ~HasPrefix(raw.text, failure.diag)

-----------------------------------------------------------------------------
(* C10                                                                     *)

\* C10, as stated: for a reply that parses to a JSON object,
\* extract_invoice_data_from_text completes without failure whatever keys
\* are missing or added, the result has the keys of the reply and no other,
\* and without a header the result is the reply.
C10_ObjectReplyCompletes ==
    ( /\ entry = "extract_invoice_data_from_text"
      /\ extracted_data.t = "obj"
      /\ pc \in {"done", "failed"} ) =>
        /\ pc = "done"
        /\ result.kind = "data"
        /\ DOMAIN result.data.m = DOMAIN extracted_data.m
        /\ KeyHeader \notin DOMAIN extracted_data.m => result.data = extracted_data

-----------------------------------------------------------------------------
(* The customer resolver                                                   *)

\* match_customer_to_database has returned
Resolved == entry = "match_customer_to_database" /\ pc = "done"

\* the candidate is null, empty or made of whitespace only
BlankCandidate == customer_name = JNull \/ AllWS(customer_name.s)

\* C11: for a candidate name that is null, the empty string or whitespace
\* only, match_customer_to_database returns no-match, whatever the
\* directory holds
C11_BlankCandidateReturnsNoMatch ==
    (Resolved /\ BlankCandidate) => match = NoMatch

\* t with its letters in lower case
Folded(t) == [k \in 1..Len(t) |-> Lower(t[k])]

\* p occurs in t literally, ignoring case
OccursInIgnoringCase(t, p) == OccursIn(Folded(t), Folded(p))

\* the positions of t where a whitespace-separated token starts
TokenStarts(t) ==
    {k \in 1..Len(t) : t[k] \notin WS /\ (k = 1 \/ t[k - 1] \in WS)}

\* the token of t that starts at position k
TokenAt(t, k) ==
    SubSeq(t, k, CHOOSE j \in k..Len(t) :
                    /\ \A i \in k..j : t[i] \notin WS
                    /\ (j = Len(t) \/ t[j + 1] \in WS))

\* the whitespace-separated tokens of t, in order
Tokens(t) ==
    [n \in 1..Cardinality(TokenStarts(t)) |->
        TokenAt(t, CHOOSE k \in TokenStarts(t) :
                      Cardinality({j \in TokenStarts(t) : j < k}) = n - 1)]

RECURSIVE SpaceJoined(_)
\* the tokens ts joined by single spaces
SpaceJoined(ts) ==
    IF Len(ts) = 0 THEN <<>>
    ELSE IF Len(ts) = 1 THEN ts[1]
    ELSE SpaceJoined(SubSeq(ts, 1, Len(ts) - 1)) \o <<" ">> \o ts[Len(ts)]

\* the given name and the family name of a candidate of two tokens or more
GivenName(t) == Tokens(t)[1]

FamilyName(t) == SpaceJoined(Tail(Tokens(t)))

\* the candidate is a string of two tokens or more
TwoTokens == customer_name.t = "str" /\ Cardinality(TokenStarts(customer_name.s)) >= 2

\* the Individual rows whose FirstName contains the given name and whose
\* LastName contains the family name, literally and ignoring case
LiteralIndividuals ==
    {k \in 1..Len(db.IndividualCustomers) :
        /\ OccursInIgnoringCase(db.IndividualCustomers[k].FirstName, GivenName(customer_name.s))
        /\ OccursInIgnoringCase(db.IndividualCustomers[k].LastName, FamilyName(customer_name.s))}

\* the first of them in the order of the table
FirstLiteralIndividual ==
    db.IndividualCustomers[CHOOSE k \in LiteralIndividuals : \A j \in LiteralIndividuals : k <= j]

\* the Customer rows whose PersonID is the identity of the individual row i
CustomersOfIndividual(i) ==
    {k \in 1..Len(db.Customers) : db.Customers[k].PersonID = i.BusinessEntityID}

\* C12: for a candidate of two tokens or more, when the first Individual row
\* whose FirstName contains the given name and whose LastName contains the
\* family name (ignoring case) has a Customer row, the resolver returns that
\* Customer row with that Individual row, whatever stores match
C12_FirstContainingIndividualWins ==
    (/\ Resolved
     /\ TwoTokens
     /\ LiteralIndividuals # {}
     /\ CustomersOfIndividual(FirstLiteralIndividual) # {})
    => /\ match.kind = "individual"
       /\ match.detail = <<FirstLiteralIndividual>>
       /\ \E k \in CustomersOfIndividual(FirstLiteralIndividual) :
              match.customer = <<db.Customers[k]>>

RECURSIVE PatternEnds(_, _, _)
\* the lengths of the prefixes of t that the first n characters of the
\* pattern pat admit, % standing for any run of characters and _ for any
\* one character, letters compared ignoring case
PatternEnds(pat, t, n) ==
    IF n = 0 THEN {0}
    ELSE IF pat[n] = "%"
         THEN {j \in 0..Len(t) : \E i \in PatternEnds(pat, t, n - 1) : i <= j}
         ELSE {i + 1 : i \in {h \in PatternEnds(pat, t, n - 1) :
                                  /\ h < Len(t)
                                  /\ (pat[n] = "_" \/ Folded(<<pat[n]>>) = Folded(<<t[h + 1]>>))}}

\* the filter column ILIKE %needle% admits the value t
Admits(t, needle) ==
    Len(t) \in PatternEnds(<<"%">> \o needle \o <<"%">>, t, Len(needle) + 2)

\* the Individual rows the filter of the individual tier admits
AdmittedIndividuals ==
    {k \in 1..Len(db.IndividualCustomers) :
        /\ Admits(db.IndividualCustomers[k].FirstName, GivenName(customer_name.s))
        /\ Admits(db.IndividualCustomers[k].LastName, FamilyName(customer_name.s))}

\* the Individual row the individual tier matches
MatchedIndividual ==
    db.IndividualCustomers[CHOOSE k \in AdmittedIndividuals : \A j \in AdmittedIndividuals : k <= j]

\* the Store rows the filter of the organization tier admits
AdmittedStores ==
    {k \in 1..Len(db.StoreCustomers) :
        Admits(db.StoreCustomers[k].Name, Trimmed(customer_name.s))}

\* the Store row the organization tier matches
MatchedStore ==
    db.StoreCustomers[CHOOSE k \in AdmittedStores : \A j \in AdmittedStores : k <= j]

\* the Customer rows whose StoreID is the identity of the store row o
CustomersOfStore(o) ==
    {k \in 1..Len(db.Customers) : db.Customers[k].StoreID = o.BusinessEntityID}

\* the organization tier resolves a customer
OrganizationResolves ==
    AdmittedStores # {} /\ CustomersOfStore(MatchedStore) # {}

\* the result of the organization tier is returned
OrganizationResult ==
    IF OrganizationResolves
    THEN /\ match.kind = "organization"
         /\ match.detail = <<MatchedStore>>
         /\ \E k \in CustomersOfStore(MatchedStore) : match.customer = <<db.Customers[k]>>
    ELSE match = NoMatch

\* the individual tier matched a row that no Customer row refers to
ReferentialMismatch ==
    /\ TwoTokens
    /\ AdmittedIndividuals # {}
    /\ CustomersOfIndividual(MatchedIndividual) = {}

\* C13: when the matched Individual row has no Customer row with its
\* identity as PersonID, the resolver raises nothing and goes on with the
\* organization tier: it returns the organization result if that tier
\* resolves a customer, and no-match otherwise
C13_MismatchFallsThroughToOrganizations ==
    (Resolved /\ ReferentialMismatch) => (failure = NoFailure /\ OrganizationResult)

C13_Witness ==
    Resolved /\ ReferentialMismatch /\ OrganizationResolves /\ match.kind = "organization"

\* the individual tier resolves a customer
IndividualResolves ==
    /\ TwoTokens
    /\ AdmittedIndividuals # {}
    /\ CustomersOfIndividual(MatchedIndividual) # {}

\* the Store rows whose Name contains the whole trimmed candidate, literally
\* and ignoring case
LiteralStores ==
    {k \in 1..Len(db.StoreCustomers) :
        OccursInIgnoringCase(db.StoreCustomers[k].Name, Trimmed(customer_name.s))}

\* the first of them in the order of the table
FirstLiteralStore ==
    db.StoreCustomers[CHOOSE k \in LiteralStores : \A j \in LiteralStores : k <= j]

\* a candidate that is a string with a character that is not whitespace
NamedCandidate == customer_name.t = "str" /\ ~AllWS(customer_name.s)

\* C14: whenever the individual tier resolves no customer, the resolver
\* returns the Customer row whose StoreID is the identity of the first Store
\* row whose Name contains the whole trimmed candidate (ignoring case),
\* tagged organization; without such a Store row or Customer row it returns
\* no-match and raises nothing
C14_FirstContainingOrganizationOrNoMatch ==
    (Resolved /\ NamedCandidate /\ ~IndividualResolves)
    => /\ failure = NoFailure
       /\ IF LiteralStores # {} /\ CustomersOfStore(FirstLiteralStore) # {}
          THEN /\ match.kind = "organization"
               /\ match.detail = <<FirstLiteralStore>>
               /\ \E k \in CustomersOfStore(FirstLiteralStore) :
                      match.customer = <<db.Customers[k]>>
          ELSE match = NoMatch

\* C15: name matching is a plain substring test ignoring case, for every
\* candidate, the ones with % and _ included: an Individual row is returned
\* only if the given name occurs literally in its FirstName and the family
\* name in its LastName, a Store row only if the whole trimmed candidate
\* occurs literally in its Name
C15_MatchingIsLiteralSubstring ==
    Resolved =>
        /\ match.kind = "individual" =>
              /\ OccursInIgnoringCase(match.detail[1].FirstName, GivenName(customer_name.s))
              /\ OccursInIgnoringCase(match.detail[1].LastName, FamilyName(customer_name.s))
        /\ match.kind = "organization" =>
              OccursInIgnoringCase(match.detail[1].Name, Trimmed(customer_name.s))

-----------------------------------------------------------------------------
(* The pipeline: extract_invoice_data_from_text,                           *)
(* extract_invoice_data_from_document, upload_invoice                      *)

Pipelines ==
    {"extract_invoice_data_from_text", "extract_invoice_data_from_document", "upload_invoice"}

\* a pipeline has returned its structured result
Completed == entry \in Pipelines /\ pc = "done"

\* a key that a dict does not have
Absent == [t |-> "absent", n |-> 0, s |-> <<>>, m |-> <<>>]

\* the header of a structured result, Absent if it has none
HeaderOf(data) ==
    IF data.t = "obj" /\ KeyHeader \in DOMAIN data.m THEN data.m[KeyHeader] ELSE Absent

\* the value of the header under key, Absent if it has none
HeaderField(data, key) ==
    IF HeaderOf(data).t = "obj" /\ key \in DOMAIN HeaderOf(data).m
    THEN HeaderOf(data).m[key]
    ELSE Absent

HeaderIds == {KeyCustomerID, KeyTerritoryID}

\* C16: in a completed result header.CustomerID and header.TerritoryID differ
\* from what the extraction produced only if the resolution returned a
\* customer; after a no-match, or without a resolution, the header is as the
\* extraction produced it; a value that is present and not null is never
\* replaced by null
C16_HeaderIdsChangeOnlyOnMatch ==
    Completed =>
        /\ \A key \in HeaderIds :
              HeaderField(result.data, key) # HeaderField(extracted_data, key)
                  => match.customer # <<>>
        /\ match.customer = <<>> => HeaderOf(result.data) = HeaderOf(extracted_data)
        /\ \A key \in HeaderIds :
              HeaderField(extracted_data, key) \notin {Absent, JNull}
                  => HeaderField(result.data, key) \notin {Absent, JNull}

C16_Witness ==
    /\ Completed
    /\ match = NoMatch
    /\ HeaderField(extracted_data, KeyCustomerID) = JNum(7)
    /\ HeaderField(result.data, KeyCustomerID) = JNum(7)

\* the structured-extraction calls made so far
ExtractCalls == SelectSeq(calls, LAMBDA c : c.api = "extract")

\* the model was invoked once, for the document submitted
ModelInvoked ==
    /\ Len(ExtractCalls) = 1
    /\ entry = "extract_invoice_data_from_text" => ExtractCalls[1].text = text_content
    /\ raw.kind = "text"

\* the reply was cleaned, and parsed to the data the result is made of
SanitizedAndParsed ==
    /\ OccursIn(raw.text, cleaned)
    /\ JsonLoads(cleaned).ok
    /\ extracted_data = JsonLoads(cleaned).val
    /\ result.kind = "data"
    /\ result.data.t = extracted_data.t
    /\ extracted_data.t = "obj" =>
          \A k \in DOMAIN extracted_data.m \ {KeyHeader} :
              k \in DOMAIN result.data.m /\ result.data.m[k] = extracted_data.m[k]

\* C17: every invocation of a pipeline that completes went through the model
\* invocation, the clean-up and the resolution in that order, each once: the
\* structured result returned is the cleaned and parsed reply of a model
\* invocation made for the document submitted, in
\* extract_invoice_data_from_document (the entry point of the upload
\* endpoint) as in extract_invoice_data_from_text
C17_CompletedResultIsParsedModelReply ==
    Completed => (ModelInvoked /\ SanitizedAndParsed)

\* a stage of the invocation has failed
Failed == failure # NoFailure

\* what fails in the recovery of the text, before any model invocation for
\* the structured data
RecoveryCauses == {"PdfReader", "NoRasterizer", "Rasterize", "IndexError", "OCR", "NoText"}

\* what fails in the model invocation, before the reply is parsed
InvocationCauses == {"APIError", "EmptyResponse"}

\* C18: when a stage fails (text recovery, model invocation, clean-up and
\* parse, resolution) the invocation ends there: no later stage has run, the
\* caller gets an exception and no structured result, and upload_invoice
\* answers 500; a 200 is answered only with the result of an invocation
\* that did not fail
C18_FailureIsTerminalWithoutResult ==
    /\ Failed =>
          /\ pc = "failed"
          /\ result = NoResult
          /\ entry = "upload_invoice" <=> status = 500
          /\ failure.cause \in RecoveryCauses =>
                (ExtractCalls = <<>> /\ cleaned = <<>> /\ extracted_data = JNull)
          /\ failure.cause \in InvocationCauses => (cleaned = <<>> /\ extracted_data = JNull)
          /\ failure.exc = "ValueError" => match = NotAttempted
    /\ status = 200 => (~Failed /\ pc = "done" /\ result.kind = "data")

C18_Witness ==
    /\ entry = "upload_invoice"
    /\ Failed
    /\ status = 500
    /\ result = NoResult

\* C19: in one invocation the structured-extraction model is called at most
\* once on every path (Tier-1 text, one page by vision, several pages by
\* vision, no rasterizer, image), the call is the last outbound call of the
\* invocation, and a call that failed ends the invocation
C19_AtMostOneExtractionCall ==
    /\ Len(ExtractCalls) <= 1
    /\ ExtractCalls # <<>> => calls[Len(calls)].api = "extract"
    /\ raw = APIErrorReply => pc = "failed"

C19_Witness ==
    /\ entry = "extract_data_from_pdf_gpt"
    /\ images = 2
    /\ Len(ExtractCalls) = 1
    /\ raw = APIErrorReply
    /\ pc = "failed"

\* the functions whose outermost except clause reports a failed recovery of
\* the document
RecoveryEntries ==
    {"extract_text_from_pdf_gpt", "extract_data_from_pdf_gpt", "extract_text_from_pdf",
     "extract_text_from_image_gpt", "extract_text_from_image", "extract_data_from_image_gpt"}

\* the messages under which a failed recovery of the document is reported
TextRecoveryTags == {RecoveryMsg(e) : e \in RecoveryEntries}

\* the message under which the function reports a failed model call
ModelInvocationTag == Backend(entry).api_msg

\* C20: a failure carries the tag of the stage that failed: a reply that does
\* not parse as JSON is reported as a malformed response, never under the
\* tag of a failed model call or of a failed text recovery
C20_ParseFailureHasItsOwnTag ==
    failure.cause = "JSONDecodeError" =>
        /\ failure.msg # ModelInvocationTag
        /\ failure.msg \notin TextRecoveryTags

-----------------------------------------------------------------------------
(* Invocations side by side                                                *)

\* invocation i has returned or raised
RunEnded(i) == runs[i].pc \in {"done", "failed"}

\* what the caller of invocation i gets
Outcome(i) == [result |-> runs[i].result, failure |-> runs[i].failure]

-----------------------------------------------------------------------------
(* The admission of an upload                                              *)

\* the extensions the specification admits
SupportedExtensions == { <<"p", "d", "f">>, <<"p", "n", "g">>, <<"j", "p", "g">>, <<"j", "p", "e", "g">> }

\* the text after the last dot of the filename is, ignoring case, one of
\* the supported extensions
HasSupportedExtension(f) ==
    \E d \in 1..Len(f) :
        /\ f[d] = "."
        /\ \A j \in (d + 1)..Len(f) : f[j] # "."
        /\ Folded(SubSeq(f, d + 1, Len(f))) \in SupportedExtensions

\* at most 10 MiB
WithinSizeLimit(u) == u.size <= 10 * 1024 * 1024

\* upload_invoice has called the pipeline: it is about to run, or has ended
PipelineCalled == entry = "upload_invoice" /\ pc \in {"admitted", "done", "failed"}

\* upload_invoice has aborted before the pipeline with one of the statuses
\* of a rejection
Rejected == pc = "rejected" /\ status \in {400, 413, 415} /\ result = NoResult /\ calls = <<>>

\* the three checks as stated: the declared type is one of three
SatisfiesStatedChecks(u) ==
    /\ u.has_file
    /\ HasSupportedExtension(u.filename)
    /\ u.content_type \in {"application/pdf", "image/png", "image/jpeg"}
    /\ WithinSizeLimit(u)

\* the three checks as made: image/jpg is a fourth type, and a part that
\* declares no type is not checked for it
SatisfiesChecks(u) ==
    /\ u.has_file
    /\ HasSupportedExtension(u.filename)
    /\ u.content_type \in {"", "application/pdf", "image/png", "image/jpeg", "image/jpg"}
    /\ WithinSizeLimit(u)

\* C22 (as stated): the pipeline is called only for uploads whose extension
\* is supported, whose declared type is application/pdf, image/png or
\* image/jpeg and whose size is at most 10 MiB; every other upload is
\* rejected with 400, 413 or 415 before the pipeline is called
C22_PipelineOnlyForStatedChecks ==
    (entry = "upload_invoice" /\ pc # "start") =>
        /\ PipelineCalled => SatisfiesStatedChecks(upload)
        /\ ~SatisfiesStatedChecks(upload) => Rejected

\* C22 (amended): the pipeline is called only for uploads whose extension is
\* supported, whose declared type is application/pdf, image/png, image/jpeg
\* or image/jpg, or is not declared, and whose size is at most 10 MiB; every
\* other upload is rejected with 400, 413 or 415 before the pipeline is called
C22_PipelineOnlyForAdmittedUploads ==
    (entry = "upload_invoice" /\ pc # "start") =>
        /\ PipelineCalled => SatisfiesChecks(upload)
        /\ ~SatisfiesChecks(upload) => Rejected

\* an upload of exactly 10 MiB with a two-dot filename and the fourth type
\* went through the pipeline
C22_Witness ==
    /\ entry = "upload_invoice"
    /\ pc = "done"
    /\ status = 200
    /\ upload.filename = <<"a", ".", "b", ".", "p", "n", "g">>
    /\ upload.size = 10 * 1024 * 1024
    /\ upload.content_type = "image/jpg"

\* the outcome of an invocation that runs alone on the inputs in with the
\* directory d: the steps of its function one after the other
AloneOutcome(in, d) ==
    IF in.entry = "extract_invoice_data_from_text"
    THEN IF NoTextContent(in.text)
         THEN [result |-> NoResult,
               failure |-> ValueError("No text content provided for extraction", "NoText", <<>>)]
         ELSE IF ~ParseReply(in.entry, in.reply).ok
         THEN [result |-> NoResult, failure |-> ParseReply(in.entry, in.reply).failure]
         ELSE IF OpensSession(ParseReply(in.entry, in.reply).data) /\ in.session = "raises"
         THEN [result |-> NoResult, failure |-> Uncaught("OperationalError", "session")]
         ELSE IF MergeCustomer(ParseReply(in.entry, in.reply).data, d).ok
         THEN [result |-> DataResult(MergeCustomer(ParseReply(in.entry, in.reply).data, d).data),
               failure |-> NoFailure]
         ELSE [result |-> NoResult,
               failure |-> MergeCustomer(ParseReply(in.entry, in.reply).data, d).failure]
    ELSE IF in.session = "raises"
         THEN [result |-> NoResult, failure |-> Uncaught("OperationalError", "session")]
         ELSE [result |-> DataResult(AttachCustomer(HardCodedData,
                              match_customer_to_database(HardCodedData.m[KeyCustomerName], d))),
               failure |-> NoFailure]

\* every invocation that has ended has the outcome of running alone
EndsAsAlone == \A i \in RunIds : RunEnded(i) => Outcome(i) = AloneOutcome(runs[i].in, db)

\* C23: under every interleaving of the steps of the invocations in flight,
\* each invocation ends with the outcome it would have if run alone on the
\* same document, model reply and directory, and no step changes the
\* customer directory
C23_InvocationsAreIndependent == [](EndsAsAlone) /\ [][db' = db]_vars

\* two invocations with different replies have interleaved and both ended,
\* one with a matched customer and one with a failure
C23_Witness ==
    /\ runs[1].in # runs[2].in
    /\ runs[1].pc = "done"
    /\ runs[1].match.kind = "organization"
    /\ runs[2].pc = "failed"
    /\ runs[2].failure.cause = "JSONDecodeError"

-----------------------------------------------------------------------------
(* The file type in extract_invoice_data_from_document                     *)

\* C24: extract_invoice_data_from_document raises ValueError for every
\* filename whose extension is not pdf, png, jpg or jpeg, a filename without
\* a dot included, and returns a result only for a supported file type
C24_UnsupportedFileTypeRaisesValueError ==
    (entry = "extract_invoice_data_from_document" /\ pc \in {"done", "failed"}) =>
        /\ result # NoResult => HasSupportedExtension(upload.filename)
        /\ (~HasSupportedExtension(upload.filename) /\ failure.cause # "session") =>
               failure.exc = "ValueError"

-----------------------------------------------------------------------------
(* The identifiers of the matched customer in the header                   *)

\* the completed result has a header object whose key holds the identifier id
HeaderHolds(key, id) == HeaderField(result.data, key) = JNum(id)

\* C25: whenever the resolution returned a customer record and the parsed
\* reply has a header object, header.CustomerID and header.TerritoryID of the
\* completed result equal the CustomerID and TerritoryID of that record, in
\* every pipeline entry point
C25_HeaderCarriesMatchedIdentifiers ==
    (Completed /\ match.customer # <<>> /\ HeaderOf(extracted_data).t = "obj") =>
        /\ HeaderHolds(KeyCustomerID, match.customer[1].CustomerID)
        /\ HeaderHolds(KeyTerritoryID, match.customer[1].TerritoryID)

-----------------------------------------------------------------------------
(* The exception types that leave the pipeline functions                   *)

\* the model has replied with a text that parses as JSON
ReplyParsesAsJson == raw.kind = "text" /\ JsonLoads(cleaned).ok

\* C27: for every model reply that parses as JSON, of any JSON type and with
\* any value types for header and extracted_customer_name,
\* extract_invoice_data_from_text and process_invoice_document either return
\* a result or raise ValueError; no other exception type escapes (a failure
\* of the database session is not a matter of the reply and is left out)
C27_OnlyValueErrorEscapes ==
    ( /\ \/ entry = "extract_invoice_data_from_text" /\ ReplyParsesAsJson
         \/ entry = "process_invoice_document"
      /\ pc = "failed"
      /\ failure.cause # "session" ) =>
        failure.exc = "ValueError"

-----------------------------------------------------------------------------
(* The shape of a resolution                                               *)

\* match_customer_to_database has returned, called by itself or by a
\* pipeline that completed
ResolutionReturned ==
    \/ Resolved
    \/ Completed /\ match # NotAttempted

\* a row of the table of individuals, of the table of stores
IsIndividualRow(r) == \E k \in 1..Len(db.IndividualCustomers) : db.IndividualCustomers[k] = r

IsStoreRow(r) == \E k \in 1..Len(db.StoreCustomers) : db.StoreCustomers[k] = r

KeyFirstName == <<"F", "i", "r", "s", "t", "N", "a", "m", "e">>

KeyName == <<"N", "a", "m", "e">>

\* customer_detail in the output of the document pipeline, Absent if none
SurfacedDetail ==
    IF KeyCustomerDetail \in DOMAIN result.data.m THEN result.data.m[KeyCustomerDetail] ELSE Absent

\* the output shows the fields of an individual, of an organization
SurfacedAsIndividual == SurfacedDetail.t = "obj" /\ KeyFirstName \in DOMAIN SurfacedDetail.m

SurfacedAsOrganization ==
    /\ SurfacedDetail.t = "obj"
    /\ KeyName \in DOMAIN SurfacedDetail.m
    /\ KeyFirstName \notin DOMAIN SurfacedDetail.m

\* C28: in every result of match_customer_to_database the customer is none
\* exactly when the detail is none; with an Individual detail the customer's
\* PersonID is the detail's BusinessEntityID, with a store detail the
\* customer's StoreID is the detail's BusinessEntityID; and the output of the
\* document pipeline shows the fields of an individual or of an organization
\* according to the tier that produced the match
C28_ResolutionIsWellFormed ==
    /\ ResolutionReturned =>
          /\ match.customer = <<>> <=> match.detail = <<>>
          /\ match.customer = <<>> <=> match.kind = "none"
          /\ match.kind = "individual" =>
                /\ IsIndividualRow(match.detail[1])
                /\ match.customer[1].PersonID = match.detail[1].BusinessEntityID
          /\ match.kind = "organization" =>
                /\ IsStoreRow(match.detail[1])
                /\ match.customer[1].StoreID = match.detail[1].BusinessEntityID
    /\ (Completed /\ entry \in {"extract_invoice_data_from_document", "upload_invoice"}) =>
          /\ SurfacedAsIndividual <=> match.kind = "individual"
          /\ SurfacedAsOrganization <=> match.kind = "organization"
          /\ SurfacedDetail = JNull <=> match.kind = "none"

\* the individual found has no customer, and the document pipeline shows the
\* store whose name contains the candidate
C28_Witness ==
    /\ Completed
    /\ entry = "upload_invoice"
    /\ FindIndividual(Split(NameIsabellaTorres), db) # <<>>
    /\ match.kind = "organization"
    /\ match.customer[1].StoreID = match.detail[1].BusinessEntityID
    /\ SurfacedAsOrganization

-----------------------------------------------------------------------------
(* The listing of the sales orders                                         *)

\* the text is an integer: an optional sign and decimal digits, whitespace
\* around them aside
IsIntegerText(t) ==
    \E sign \in {<<>>, <<"+">>, <<"-">>} : \E k \in 1..Len(t) :
        /\ Trimmed(t) = sign \o SubSeq(Trimmed(t), Len(sign) + 1, Len(Trimmed(t)))
        /\ Len(Trimmed(t)) = Len(sign) + k
        /\ \A j \in (Len(sign) + 1)..Len(Trimmed(t)) : Trimmed(t)[j] \in Digits

\* an integer text of at least one: not negative, and a digit other than 0
IsAtLeastOne(t) ==
    /\ IsIntegerText(t)
    /\ Trimmed(t)[1] # "-"
    /\ \E k \in 1..Len(t) : t[k] \in Digits \ {"0"}

\* the value of an integer text that is at least one and has few digits
ValueOf(t) == DigitsValue(SelectSeq(t, LAMBDA c : c \in Digits))

\* the page and the page size asked for; 1 and 10 when not given
PageAsked(a) == IF a.page.given THEN ValueOf(a.page.text) ELSE 1

PerPageAsked(a) == IF a.per_page.given THEN ValueOf(a.per_page.text) ELSE 10

\* integer page >= 1 and 1 <= per_page <= 100
ValidPaging(a) ==
    /\ a.page.given => IsAtLeastOne(a.page.text)
    /\ a.per_page.given =>
          /\ IsAtLeastOne(a.per_page.text)
          /\ Len(SelectSeq(a.per_page.text, LAMBDA c : c \in Digits)) <= 3
          /\ ValueOf(a.per_page.text) <= 100

\* ceil(t / n)
CeilDiv(t, n) == CHOOSE q \in 0..t : q * n >= t /\ (q = 0 \/ (q - 1) * n < t)

Smaller(x, y) == IF x < y THEN x ELSE y

Larger(x, y) == IF x > y THEN x ELSE y

\* the response is the page asked for of a store of t orders
IsPageOf(r, p, n, t) ==
    /\ r.status = 200
    /\ r.total = t
    /\ r.total_pages = CeilDiv(t, n)
    /\ r.has_prev <=> p > 1
    /\ r.has_next <=> p * n < t
    /\ Len(r.data) = Smaller(n, Larger(0, t - (p - 1) * n))

\* C26: GET /sales_orders accepts exactly the requests with integer page >= 1
\* and 1 <= per_page <= 100, the others get 400; for an accepted request over
\* a store of T orders total = T, total_pages = ceil(T / per_page), has_prev
\* exactly when page > 1, has_next exactly when page * per_page < T, and the
\* data list has min(per_page, max(0, T - (page - 1) * per_page)) entries
C26_ListingAcceptsAndPaginates ==
    \A i \in 1..Len(requests) :
        (requests[i].op = "GET /sales_orders" /\ requests[i].pc = "responded") =>
            IF ValidPaging(requests[i].args)
            THEN /\ requests[i].response.status = 200
                 /\ IsPageOf(requests[i].response, PageAsked(requests[i].args),
                             PerPageAsked(requests[i].args), Cardinality(tables.headers))
            ELSE requests[i].response.status = 400

-----------------------------------------------------------------------------
(* The sales orders and their line items                                   *)

\* the committed detail d has an order
HasOrder(d) == \E h \in tables.headers : h.SalesOrderID = d.SalesOrderID

\* request i is a DELETE /sales_orders/<id> that was answered 204
DeletedOrder(i) ==
    /\ requests[i].op = "DELETE /sales_orders"
    /\ requests[i].pc = "responded"
    /\ requests[i].status = 204

\* C29: starting from a store in which every SalesOrderDetail references an
\* existing SalesOrderHeader, after any interleaving of POST, PUT and DELETE
\* requests on /sales_orders and /sales_order_details, each in its own
\* session, every committed SalesOrderDetail has the SalesOrderID of an
\* existing SalesOrderHeader
C29_NoOrphanLineItems == \A d \in tables.details : HasOrder(d)

\* request i is answered in this step with one of the codes
Answered(i, codes) ==
    /\ requests[i].pc # "responded"
    /\ requests'[i].pc = "responded"
    /\ requests'[i].status \in codes

\* a rejected POST or PUT on /sales_orders is answered from inside its
\* handler, before any commit, and the step leaves the tables as they are
RejectionLeavesTables(i) ==
    ( /\ requests[i].op \in {"POST /sales_orders", "PUT /sales_orders"}
      /\ Answered(i, {400, 404}) ) =>
        /\ requests[i].pc = "received"
        /\ tables' = tables

\* the commit of a PUT on /sales_orders leaves every SalesOrderID, and every
\* other order, as it is
UpdateKeepsIdentity(i) ==
    (requests[i].op = "PUT /sales_orders" /\ Answered(i, {200})) =>
        /\ HeaderIdsOf(tables') = HeaderIdsOf(tables)
        /\ \E h \in tables'.headers : h.SalesOrderID = requests[i].id
        /\ \A h \in tables.headers : h.SalesOrderID # requests[i].id => h \in tables'.headers
        /\ tables'.details = tables.details

\* C30: when PUT /sales_orders/<id> or POST /sales_orders aborts with 400
\* (an invalid date, after earlier fields of the request were assigned to the
\* order object) or with 404, the session is rolled back and never
\* committed, so that none of the request's values is persisted; and a
\* successful PUT never changes the SalesOrderID of the order
C30_RejectedRequestLeavesStore ==
    [][\A i \in DOMAIN requests : RejectionLeavesTables(i) /\ UpdateKeepsIdentity(i)]_vars

\* a PUT with a RevisionNumber and a date that is no ISO date was answered
\* 400 after another PUT was committed, and the order has the values of the
\* other PUT only
C30_Witness ==
    /\ requests[1].op = "PUT /sales_orders"
    /\ requests[1].pc = "responded"
    /\ requests[1].status = 400
    /\ KeyRevisionNumber \in DOMAIN requests[1].body.m
    /\ DateFails(requests[1].body)
    /\ requests[2].op = "PUT /sales_orders"
    /\ requests[2].pc = "responded"
    /\ requests[2].status = 200
    /\ tables.headers = {Header(1, 2, 0, NoDate)}

====
